---------------------------- MODULE Spec2Model ----------------------------
(***************************************************************************)
(* A model of the strat_test package: the net-worth simulator              *)
(* (strat_test/net_worth.py) and the position builder with its selector    *)
(* parser (strat_test/position.py).                                        *)
(*                                                                         *)
(* Numbers.  A float is modelled by an exact rational <<n, d>> in lowest   *)
(* terms with d > 0; the missing value (NaN) is <<0, 0>>.  Arithmetic      *)
(* propagates NaN the way IEEE arithmetic does and comparisons with NaN    *)
(* are false.  Floating rounding is not modelled: two results that are     *)
(* equal here are equal up to rounding in the program, and two results     *)
(* that differ here differ by far more than any rounding.  Prices are      *)
(* strictly positive, so no infinity arises.  The one quotient compared    *)
(* with a threshold is the rescaled rank of quantile mode: on rows of up   *)
(* to three cells its values are 0, 1/2 and 1, which the program computes  *)
(* as 0, 0.49999999999999994 or 0.5, and 1, so that the comparison with    *)
(* the thresholds used here comes out as the exact one.                    *)
(*                                                                         *)
(* Tables.  A pandas DataFrame is a record [index, columns, vals]: index   *)
(* is the ascending sequence of dates, columns the sequence of labels and  *)
(* vals[k][j] the cell of row k and column j.  A pandas Series with a      *)
(* date index is [index, vals].                                            *)
(*                                                                         *)
(* Strings.  A selector string is the sequence of its characters, so that  *)
(* split, startswith and the numeric conversions are computed character by *)
(* character.  The alphabet is the digits, "-", ".", "_", "~", ":", the    *)
(* letters l, s and x.                                                     *)
(***************************************************************************)
EXTENDS Integers, Sequences, FiniteSets, TLC

VARIABLES
    price,              \* NetWorth.price
    position,           \* NetWorth.position
    fee,                \* NetWorth.fee
    ignore_posi_exceed, \* argument of NetWorth.__init__
    method,             \* argument of NetWorth.__init__
    pad,                \* does DataFrame.pct_change forward-fill (pandas version)
    networth,           \* NetWorth.networth
    nw_pc,              \* "new", "ok", or the error NetWorth.__init__ raised
    factor,             \* Position.factor
    is_series,          \* factor_data is a Series: factor holds it as one column
    mode,               \* Position.mode
    ls,                 \* Position.ls: [kind, num, str]
    weight,             \* Position.weight
    uw_posi_long,       \* Position.uw_posi_long
    uw_posi_short,      \* Position.uw_posi_short
    posi,               \* Position.posi
    pos_pc,             \* "new", "ok", or the error Position.__init__ raised
    data_type,          \* argument of Position._get_ls_range: "int" or "float"
    ranges,             \* what Position._get_ls_range returned: [l, s]
    parse_pc,           \* "new", "ok", or the error _get_ls_range raised
    neg_posi,           \* (-p).posi, p the constructed Position
    neg_pc,             \* "idle", "ok", or the error Position.__neg__ raised
    hf_start,           \* argument of Position.holding_freq
    hf_end,             \* argument of Position.holding_freq
    freq,               \* what Position.holding_freq returned
    freq_pc,            \* "idle", "ok", or the error holding_freq raised
    sn_col,             \* argument of NetWorth.single_networth
    sn_networth,        \* networth of the NetWorth that single_networth returned
    sn_pc,              \* "idle", "ok", or the error single_networth raised
    perf,               \* NetWorth.perf: "None" or "StratPerf"
    perf_made,          \* the StratPerf objects constructed so far
    perf_call,          \* the last of total_perf, annual_perf called
    perf_calls,         \* the calls of total_perf and annual_perf so far
    perf_pc             \* "idle", "ok", or the error the last call raised

nwVars == <<price, position, fee, ignore_posi_exceed, method, pad, networth, nw_pc>>

posVars == <<factor, is_series, mode, weight, uw_posi_long, uw_posi_short, posi,
             pos_pc>>

parseVars == <<data_type, ranges, parse_pc>>

negVars == <<neg_posi, neg_pc>>

freqVars == <<hf_start, hf_end, freq, freq_pc>>

singleVars == <<sn_col, sn_networth, sn_pc>>

\* the variables of the method calls on a constructed NetWorth
perfVars == <<perf, perf_made, perf_call, perf_calls, perf_pc>>
callVars == <<singleVars, perfVars>>

vars == <<nwVars, posVars, ls, parseVars, negVars, freqVars, callVars>>

---------------------------------------------------------------------------
(* Floats as exact rationals *)

NaN == <<0, 0>>

IsNaN(x) == x[2] = 0

Abs(n) == IF n < 0 THEN -n ELSE n

RECURSIVE Gcd(_, _)
Gcd(a, b) == IF b = 0 THEN a ELSE Gcd(b, a % b)

Lcm(a, b) == (a \div Gcd(a, b)) * b

\* n/d in lowest terms, d > 0
Frac(n, d) == LET g == Gcd(Abs(n), d) IN <<n \div g, d \div g>>

R(n) == <<n, 1>>

FNeg(x) == IF IsNaN(x) THEN NaN ELSE <<-x[1], x[2]>>

FAbs(x) == IF IsNaN(x) THEN NaN ELSE <<Abs(x[1]), x[2]>>

FAdd(x, y) ==
    IF IsNaN(x) \/ IsNaN(y) THEN NaN
    ELSE LET l == Lcm(x[2], y[2])
         IN  Frac(x[1] * (l \div x[2]) + y[1] * (l \div y[2]), l)

FSub(x, y) == FAdd(x, FNeg(y))

FMul(x, y) ==
    IF IsNaN(x) \/ IsNaN(y) THEN NaN
    ELSE LET g1 == Gcd(Abs(x[1]), y[2])
             g2 == Gcd(Abs(y[1]), x[2])
         IN  Frac((x[1] \div g1) * (y[1] \div g2), (x[2] \div g2) * (y[2] \div g1))

\* 0/0 is NaN; a nonzero value is never divided by zero in this model
FDiv(x, y) ==
    IF IsNaN(x) \/ IsNaN(y) \/ y[1] = 0 THEN NaN
    ELSE FMul(x, IF y[1] < 0 THEN <<-y[2], -y[1]>> ELSE <<y[2], y[1]>>)

\* x <= y, false when either is NaN
FLe(x, y) == ~IsNaN(x) /\ ~IsNaN(y) /\ FSub(x, y)[1] <= 0

FLt(x, y) == ~IsNaN(x) /\ ~IsNaN(y) /\ FSub(x, y)[1] < 0

FEq(x, y) == ~IsNaN(x) /\ ~IsNaN(y) /\ x = y

FFillna0(x) == IF IsNaN(x) THEN R(0) ELSE x

RECURSIVE SumSeq(_)
SumSeq(s) == IF s = <<>> THEN R(0) ELSE FAdd(s[1], SumSeq(Tail(s)))

\* numpy.nansum / pandas sum(skipna=True): NaN counts as zero
NanSumPlain(s) == SumSeq(s)
NanSum(s) == SumSeq([k \in 1..Len(s) |-> FFillna0(s[k])])

---------------------------------------------------------------------------
(* Tables *)

None == 0     \* no label (dates are 1, 2, ...)

RECURSIVE SortedSeq(_)
SortedSeq(S) ==
    IF S = {} THEN <<>>
    ELSE LET m == CHOOSE x \in S : \A y \in S : x <= y
         IN  <<m>> \o SortedSeq(S \ {m})

Range(s) == {s[k] : k \in 1..Len(s)}

NRows(df) == Len(df.index)
NCols(df) == Len(df.columns)

\* the position of a label in a sequence of labels, 0 when absent
Pos(s, x) == IF x \in Range(s) THEN CHOOSE k \in 1..Len(s) : s[k] = x ELSE 0

RowValid(df, k) == \E j \in 1..NCols(df) : ~IsNaN(df.vals[k][j])

\* DataFrame.first_valid_index / last_valid_index: the first / last row
\* label with any non-missing cell, None when there is none
first_valid_index(df) ==
    LET valid == {k \in 1..NRows(df) : RowValid(df, k)}
    IN  IF valid = {} THEN None
        ELSE df.index[CHOOSE k \in valid : \A m \in valid : k <= m]

last_valid_index(df) ==
    LET valid == {k \in 1..NRows(df) : RowValid(df, k)}
    IN  IF valid = {} THEN None
        ELSE df.index[CHOOSE k \in valid : \A m \in valid : k >= m]

\* df.loc[start:end] on an ascending index: both ends inclusive, None is open
LocSlice(df, start, end) ==
    LET keep == SortedSeq({k \in 1..NRows(df) :
                    /\ (start = None \/ df.index[k] >= start)
                    /\ (end = None \/ df.index[k] <= end)})
    IN  [index   |-> [k \in 1..Len(keep) |-> df.index[keep[k]]],
         columns |-> df.columns,
         vals    |-> [k \in 1..Len(keep) |-> df.vals[keep[k]]]]


\* an attribute that holds no table
NoTable == [index |-> <<>>, columns |-> <<>>, vals |-> <<>>]

---------------------------------------------------------------------------
(* The selector parser: Position._get_ls_range *)

Digits == {"0", "1", "2", "3", "4", "5", "6", "7", "8", "9"}

DigitVal(c) ==
    CASE c = "0" -> 0 [] c = "1" -> 1 [] c = "2" -> 2 [] c = "3" -> 3
      [] c = "4" -> 4 [] c = "5" -> 5 [] c = "6" -> 6 [] c = "7" -> 7
      [] c = "8" -> 8 [] c = "9" -> 9

\* str.split(sep)
RECURSIVE Split(_, _)
Split(s, sep) ==
    IF \E i \in 1..Len(s) : s[i] = sep
    THEN LET i == CHOOSE i \in 1..Len(s) :
                     s[i] = sep /\ \A j \in 1..(i - 1) : s[j] # sep
         IN  <<SubSeq(s, 1, i - 1)>> \o Split(SubSeq(s, i + 1, Len(s)), sep)
    ELSE <<s>>

\* a run of digits in which single underscores may stand between digits,
\* as int() and float() accept it
DigitGroup(s) ==
    /\ s # <<>>
    /\ \A i \in 1..Len(s) : s[i] \in Digits \cup {"_"}
    /\ s[1] # "_" /\ s[Len(s)] # "_"
    /\ \A i \in 1..(Len(s) - 1) : ~(s[i] = "_" /\ s[i + 1] = "_")

RECURSIVE DigitsValue(_, _)
DigitsValue(s, acc) ==
    IF s = <<>> THEN acc
    ELSE DigitsValue(Tail(s),
                     IF s[1] = "_" THEN acc ELSE 10 * acc + DigitVal(s[1]))

NumDigits(s) == Cardinality({i \in 1..Len(s) : s[i] \in Digits})

RECURSIVE Pow10(_)
Pow10(n) == IF n = 0 THEN 1 ELSE 10 * Pow10(n - 1)

Unsigned(s) == IF s # <<>> /\ s[1] = "-" THEN Tail(s) ELSE s
Signed(s, x) == IF s # <<>> /\ s[1] = "-" THEN FNeg(x) ELSE x

\* int(token): [ok, val]; ok is FALSE where int() raises ValueError
ParseInt(s) ==
    LET u == Unsigned(s)
    IN  IF DigitGroup(u)
        THEN [ok |-> TRUE, val |-> Signed(s, R(DigitsValue(u, 0)))]
        ELSE [ok |-> FALSE, val |-> NaN]

\* float(token): digits, then optionally a point and digits; one side of
\* the point may be empty
ParseFloat(s) ==
    LET u     == Unsigned(s)
        parts == Split(u, ".")
        ip    == parts[1]
        fp    == IF Len(parts) = 2 THEN parts[2] ELSE <<>>
        okp(t) == t = <<>> \/ DigitGroup(t)
    IN  IF /\ Len(parts) <= 2
           /\ okp(ip) /\ okp(fp)
           /\ ~(ip = <<>> /\ fp = <<>>)
        THEN [ok |-> TRUE,
              val |-> Signed(s, FAdd(R(DigitsValue(ip, 0)),
                                     Frac(DigitsValue(fp, 0),
                                          Pow10(NumDigits(fp)))))]
        ELSE [ok |-> FALSE, val |-> NaN]

\* float(node) whatever the data type
ParseNumAsFloat(dt, s) == ParseFloat(s)
\* data_type(node)
ParseNum(dt, s) == IF dt = "int" THEN ParseInt(s) ELSE ParseFloat(s)

NoRange == <<>>      \* None

\* sub_rule.startswith(("l:", "s:"))
HasPrefix(rule) == Len(rule) >= 2 /\ rule[1] \in {"l", "s"} /\ rule[2] = ":"

\* the range a rule body gives: one node n is (n, n), two nodes are
\* (first, second)
NodesRangeSorted(nodes) ==
    IF Len(nodes) = 1 THEN <<nodes[1], nodes[1]>>
    ELSE IF FLe(nodes[1], nodes[2]) THEN <<nodes[1], nodes[2]>>
    ELSE <<nodes[2], nodes[1]>>
NodesRange(nodes) ==
    IF Len(nodes) = 1 THEN <<nodes[1], nodes[1]>> ELSE <<nodes[1], nodes[2]>>

\* the loop over ls_list from rule i on, rs the ranges found so far
RECURSIVE ParseRules(_, _, _, _)
ParseRules(rules, i, rs, dt) ==
    IF i > Len(rules) THEN [err |-> "", l |-> rs.l, s |-> rs.s]
    ELSE
      LET rule  == rules[i]
          body  == SubSeq(rule, 3, Len(rule))
          nodes == Split(body, "~")
          nums  == [n \in 1..Len(nodes) |-> ParseNum(dt, nodes[n])]
          fail(msg) == [err |-> msg, l |-> NoRange, s |-> NoRange]
      IN  IF ~HasPrefix(rule) THEN fail("ValueError: Each rule must start with 'l:' or 's:'")
          ELSE IF Len(rule) <= 2 THEN fail("ValueError: Rule not specified")
          ELSE IF rs[rule[1]] # NoRange THEN fail("ValueError: Duplicate rule")
          ELSE IF \E n \in 1..Len(nodes) : ~nums[n].ok
               THEN fail("ValueError: invalid literal")
          ELSE IF Len(nodes) > 2 THEN fail("ValueError: Multiple '~' in rule")
          ELSE ParseRules(rules, i + 1,
                          [rs EXCEPT ![rule[1]] =
                              NodesRange([n \in 1..Len(nodes) |-> nums[n].val])],
                          dt)

\* Position._get_ls_range(data_type) on the selector string str: err is ""
\* or the ValueError raised
get_ls_range(str, dt) ==
    IF str = <<>>
    THEN [err |-> "ValueError: The ls string must not be empty", l |-> NoRange, s |-> NoRange]
    ELSE IF Len(Split(str, "_")) > 2
    THEN [err |-> "ValueError: There must be less than one '_' in ls string",
          l |-> NoRange, s |-> NoRange]
    ELSE ParseRules(Split(str, "_"), 1, [l |-> NoRange, s |-> NoRange], dt)

---------------------------------------------------------------------------
(* Position: validation *)

IsNumber(sel) == sel.kind \in {"int", "float"}

\* Position._validate_mode: "" or the exception raised
validate_mode(m) ==
    IF m \in {"abs", "rank", "quantile"} THEN ""
    ELSE "ValueError: The mode must be 'abs', 'rank', or 'quantile'."

\* the same with 0 taken for a positive number
validate_ls_nonneg(sel, m) ==
    IF sel.kind \notin {"str", "float", "int"}
    THEN "ValueError: The ls must be a string, float, or int."
    ELSE IF m = "rank" /\ IsNumber(sel) /\ FLt(sel.num, R(0))
    THEN "ValueError: The ls must be a positive number."
    ELSE IF m = "quantile" /\ IsNumber(sel)
              /\ (FLt(sel.num, R(0)) \/ FLe(R(1), sel.num))
    THEN "ValueError: The ls must be a number between 0 and 1."
    ELSE ""
\* Position._validate_ls: "" or the exception raised
validate_ls(sel, m) ==
    IF sel.kind \notin {"str", "float", "int"}
    THEN "ValueError: The ls must be a string, float, or int."
    ELSE IF m = "rank" /\ IsNumber(sel) /\ FLe(sel.num, R(0))
    THEN "ValueError: The ls must be a positive number."
    ELSE IF m = "quantile" /\ IsNumber(sel)
              /\ (FLe(sel.num, R(0)) \/ FLe(R(1), sel.num))
    THEN "ValueError: The ls must be a number between 0 and 1."
    ELSE ""

\* Position._validate_weight: "" or the exception raised.  Every str and
\* every DataFrame ("table") passes.
validate_weight(w) ==
    IF w \in {"equal", "value", "foo", "table"} THEN ""
    ELSE "ValueError: The weight must be 'equal', 'value', or a DataFrame."

---------------------------------------------------------------------------
(* Position: the selection masks *)

\* np.asarray: the rows of a table as an array of computed cells
asarray(rows) == [k \in 1..Len(rows) |-> rows[k] \o <<>>] \o <<>>

Rows(df) == 1..NRows(df)
Cols(df) == 1..NCols(df)

\* a table of the factor's shape from its cells, cell[k, j]
LikeFactor(f, cell) ==
    [index   |-> f.index,
     columns |-> f.columns,
     vals    |-> asarray([k \in 1..NRows(f) |->
                             [j \in 1..NCols(f) |-> cell[k, j]]])]

\* lo <= x <= hi
InRange(x, rng) == FLe(rng[1], x) /\ FLe(x, rng[2])

\* _gen_posi_abs with the boundary left out (> and < for >= and <=)
gen_posi_abs_strict(f, sel) ==
    IF IsNumber(sel)
    THEN [err |-> "",
          long  |-> LikeFactor(f, [k \in Rows(f), j \in Cols(f) |->
                        FLt(sel.num, f.vals[k][j])]),
          short |-> LikeFactor(f, [k \in Rows(f), j \in Cols(f) |->
                        FLt(f.vals[k][j], sel.num)])]
    ELSE LET r == get_ls_range(sel.str, "float")
         IN  IF r.err # ""
             THEN [err |-> r.err, long |-> NoTable, short |-> NoTable]
             ELSE IF r.l = NoRange \/ r.s = NoRange
             THEN [err |-> "TypeError: cannot unpack non-iterable NoneType object",
                   long |-> NoTable, short |-> NoTable]
             ELSE [err |-> "",
                   long  |-> LikeFactor(f, [k \in Rows(f), j \in Cols(f) |->
                        FLt(r.l[1], f.vals[k][j]) /\ FLt(f.vals[k][j], r.l[2])]),
                   short |-> LikeFactor(f, [k \in Rows(f), j \in Cols(f) |->
                        FLt(r.s[1], f.vals[k][j]) /\ FLt(f.vals[k][j], r.s[2])])]
\* Position._gen_posi_abs: err is "" or the exception raised
gen_posi_abs(f, sel) ==
    IF IsNumber(sel)
    THEN [err |-> "",
          long  |-> LikeFactor(f, [k \in Rows(f), j \in Cols(f) |->
                        FLe(sel.num, f.vals[k][j])]),
          short |-> LikeFactor(f, [k \in Rows(f), j \in Cols(f) |->
                        FLe(f.vals[k][j], sel.num)])]
    ELSE LET r == get_ls_range(sel.str, "float")
         IN  IF r.err # ""
             THEN [err |-> r.err, long |-> NoTable, short |-> NoTable]
             ELSE IF r.l = NoRange \/ r.s = NoRange
             THEN [err |-> "TypeError: cannot unpack non-iterable NoneType object",
                   long |-> NoTable, short |-> NoTable]
             ELSE [err |-> "",
                   long  |-> LikeFactor(f, [k \in Rows(f), j \in Cols(f) |->
                        InRange(f.vals[k][j], r.l)]),
                   short |-> LikeFactor(f, [k \in Rows(f), j \in Cols(f) |->
                        InRange(f.vals[k][j], r.s)])]

\* before x in the ranking order
Before(x, y, ascending) == IF ascending THEN FLt(x, y) ELSE FLt(y, x)

\* Series.rank(method="min"): the smallest rank of the tie group
RankMin(row, j, ascending) ==
    IF IsNaN(row[j]) THEN NaN
    ELSE R(1 + Cardinality({i \in 1..Len(row) : Before(row[i], row[j], ascending)}))
\* Series.rank() of cell j of a row: the average rank of its tie group
\* among the non-missing cells, NaN for a missing cell
RankAverage(row, j, ascending) ==
    IF IsNaN(row[j]) THEN NaN
    ELSE LET before == Cardinality({i \in 1..Len(row) :
                            Before(row[i], row[j], ascending)})
             ties   == Cardinality({i \in 1..Len(row) : FEq(row[i], row[j])})
         IN  Frac(2 * before + ties + 1, 2)

\* DataFrame.rank(axis=1, pct=pct, ascending=ascending) on one row
RankRow(row, pct, ascending) ==
    LET n == Cardinality({i \in 1..Len(row) : ~IsNaN(row[i])})
    IN  [j \in 1..Len(row) |->
            IF pct THEN FDiv(RankAverage(row, j, ascending), R(n))
            ELSE RankAverage(row, j, ascending)]

\* np.nanmin / np.nanmax of a row, NaN for an all-NaN row
NanMin(row) ==
    LET S == {i \in 1..Len(row) : ~IsNaN(row[i])}
    IN  IF S = {} THEN NaN
        ELSE row[CHOOSE i \in S : \A m \in S : FLe(row[i], row[m])]
NanMax(row) ==
    LET S == {i \in 1..Len(row) : ~IsNaN(row[i])}
    IN  IF S = {} THEN NaN
        ELSE row[CHOOSE i \in S : \A m \in S : FLe(row[m], row[i])]

\* the fractions left as they are
MinMaxScaleNone(row) == row
\* (ac - min) / (max - min) along the row
MinMaxScale(row) ==
    [j \in 1..Len(row) |->
        FDiv(FSub(row[j], NanMin(row)), FSub(NanMax(row), NanMin(row)))]

\* the ranks the masks are cut from: ac_as (ascending) or ac_ds
RankTable(f, m, ascending) ==
    asarray([k \in 1..NRows(f) |->
        IF m = "quantile"
        THEN MinMaxScale(RankRow(f.vals[k], TRUE, ascending) \o <<>>)
        ELSE RankRow(f.vals[k], FALSE, ascending)])

\* Position._gen_posi_rela(mode), method 1
gen_posi_rela(f, sel, m) ==
    LET dt    == IF m = "rank" THEN "int" ELSE "float"
        ac_as == RankTable(f, m, TRUE)
        ac_ds == RankTable(f, m, FALSE)
    IN  IF sel.kind = dt
        THEN [err |-> "",
              long  |-> LikeFactor(f, [k \in Rows(f), j \in Cols(f) |->
                        FLe(ac_ds[k][j], sel.num)]),
              short |-> LikeFactor(f, [k \in Rows(f), j \in Cols(f) |->
                        FLe(ac_as[k][j], sel.num)])]
        ELSE IF sel.kind = "str"
        THEN LET r == get_ls_range(sel.str, dt)
             IN  IF r.err # ""
                 THEN [err |-> r.err, long |-> NoTable, short |-> NoTable]
                 ELSE IF r.l = NoRange \/ r.s = NoRange
                 THEN [err |-> "TypeError: cannot unpack non-iterable NoneType object",
                   long |-> NoTable, short |-> NoTable]
                 ELSE [err |-> "",
                       long  |-> LikeFactor(f, [k \in Rows(f), j \in Cols(f) |->
                        InRange(ac_ds[k][j], r.l)]),
                       short |-> LikeFactor(f, [k \in Rows(f), j \in Cols(f) |->
                        InRange(ac_as[k][j], r.s)])]
        ELSE [err |-> "ValueError: ls must be data_type or str",
              long |-> NoTable, short |-> NoTable]

\* Position._gen_posi
gen_posi(f, sel, m) ==
    IF m = "abs" THEN gen_posi_abs(f, sel) ELSE gen_posi_rela(f, sel, m)

---------------------------------------------------------------------------
(* Position: weighting and construction *)

BoolInt(b) == IF b THEN 1 ELSE 0

\* the netted masks divided by the number of selected cells of the row
EqualWeightGross(long, short) ==
    LikeFactor(long, [k \in Rows(long), j \in Cols(long) |->
        LET n == Cardinality({i \in Cols(long) :
                     long.vals[k][i] \/ short.vals[k][i]})
        IN  FFillna0(FDiv(R(BoolInt(long.vals[k][j]) - BoolInt(short.vals[k][j])),
                          R(n)))])
\* the "equal" branch of Position._gen_weighted_posi: the netted masks
\* divided by the row's sum of absolute values, 0 where that sum is 0
EqualWeight(long, short) ==
    LET net(k, j) == BoolInt(long.vals[k][j]) - BoolInt(short.vals[k][j])
        daily(k)  == LET t == SumSeq([j \in 1..NCols(long) |-> R(Abs(net(k, j)))])
                     IN  IF t = R(0) THEN NaN ELSE t
    IN  LikeFactor(long, [k \in Rows(long), j \in Cols(long) |->
                        FFillna0(FDiv(R(net(k, j)), daily(k)))])

\* _gen_weighted_posi dividing by the number of selected cells of the row
gen_weighted_posi_gross(long, short, w) ==
    IF w = "equal" THEN [err |-> "", posi |-> EqualWeightGross(long, short)]
    ELSE [err |-> "UnboundLocalError: posi", posi |-> NoTable]
\* Position._gen_weighted_posi: err is "" or the exception raised.  Only
\* the "equal" branch binds posi; with a DataFrame weight the comparison
\* weight == "equal" has no truth value.
gen_weighted_posi(long, short, w) ==
    IF w = "equal" THEN [err |-> "", posi |-> EqualWeight(long, short)]
    ELSE IF w = "table"
    THEN [err |-> "ValueError: The truth value of a DataFrame is ambiguous.",
          posi |-> NoTable]
    ELSE [err |-> "UnboundLocalError: posi", posi |-> NoTable]

\* _gen_posi on a Series factor: the comparisons of abs mode are
\* elementwise, self.factor.rank(axis=1, ...) of the relative modes has no
\* axis 1 on a Series
gen_posi_series(f, sel, m) ==
    IF m = "abs" THEN gen_posi_abs(f, sel)
    ELSE [err |-> "ValueError: No axis named 1 for object type Series",
          long |-> NoTable, short |-> NoTable]

\* _gen_weighted_posi on Series masks: the "equal" branch skips the
\* division, which is for a DataFrame only
gen_weighted_posi_series(long, short, w) ==
    IF w = "equal"
    THEN [err |-> "",
          posi |-> LikeFactor(long, [k \in Rows(long), j \in Cols(long) |->
                      R(BoolInt(long.vals[k][j]) - BoolInt(short.vals[k][j]))])]
    ELSE gen_weighted_posi(long, short, w)

\* the two steps on a factor of either kind
GenPosi(f, series, sel, m) ==
    IF series THEN gen_posi_series(f, sel, m) ELSE gen_posi(f, sel, m)
GenWeightedPosi(long, short, series, w) ==
    IF series THEN gen_weighted_posi_series(long, short, w)
    ELSE gen_weighted_posi(long, short, w)

\* the validations of Position.__init__ in its order: "" or the first
\* exception raised
Validation(m, sel, w) ==
    IF validate_mode(m) # "" THEN validate_mode(m)
    ELSE IF validate_ls(sel, m) # "" THEN validate_ls(sel, m)
    ELSE validate_weight(w)

NoMasks(e) == [err |-> e, long |-> NoTable, short |-> NoTable]

\* Position.__init__(factor_data, mode, ls, weight): the validations, then
\* g = self._gen_posi(), then wp = self._gen_weighted_posi(); an exception
\* at any step ends the construction with no object
Position__init__ ==
    /\ pos_pc = "new"
    /\ \E v \in {Validation(mode, ls, weight)} :
       \E g \in {IF v = "" THEN GenPosi(factor, is_series, ls, mode)
                 ELSE NoMasks(v)} :
       \E wp \in {IF g.err = ""
                   THEN GenWeightedPosi(g.long, g.short, is_series, weight)
                   ELSE [err |-> g.err, posi |-> NoTable]} :
          /\ pos_pc' = IF wp.err = "" THEN "ok" ELSE wp.err
          /\ uw_posi_long' = IF wp.err = "" THEN g.long ELSE NoTable
          /\ uw_posi_short' = IF wp.err = "" THEN g.short ELSE NoTable
          /\ posi' = wp.posi
    /\ UNCHANGED <<factor, is_series, mode, ls, weight>>
    /\ UNCHANGED <<nwVars, parseVars, negVars, freqVars, callVars>>

---------------------------------------------------------------------------
(* Position: the methods of a constructed object *)

\* -self.posi
Negated(df) ==
    LikeFactor(df, [k \in Rows(df), j \in Cols(df) |-> FNeg(df.vals[k][j])])

\* Position.__neg__: Position(-self.posi, self.mode, self.ls, self.weight),
\* the negated position table passed as the factor of a new Position
Position__neg__ ==
    /\ pos_pc = "ok" /\ neg_pc = "idle"
    /\ \E f \in {Negated(posi)} :
       \E v \in {Validation(mode, ls, weight)} :
       \E g \in {IF v = "" THEN GenPosi(f, is_series, ls, mode) ELSE NoMasks(v)} :
       \E wp \in {IF g.err = ""
                   THEN GenWeightedPosi(g.long, g.short, is_series, weight)
                   ELSE [err |-> g.err, posi |-> NoTable]} :
          /\ neg_pc' = IF wp.err = "" THEN "ok" ELSE wp.err
          /\ neg_posi' = wp.posi
    /\ UNCHANGED <<nwVars, posVars, ls, parseVars, freqVars, callVars>>

\* no frequency table
NoFreq == [index |-> <<>>, long |-> <<>>, short |-> <<>>]

\* DataFrame.sum() of a boolean mask: the count of True in column j
ColumnSum(mask, j) == Cardinality({k \in 1..NRows(mask) : mask.vals[k][j]})

\* Position.holding_freq(start, end): err is "" or the exception raised.
\* A missing end is replaced by the table uw_posi_long itself, which is no
\* slice bound.
holding_freq(long, short, start, end) ==
    IF end = None
    THEN [err |-> "TypeError: DataFrame as slice bound", freq |-> NoFreq]
    ELSE LET s  == IF start = None THEN long.index[1] ELSE start
             lw == LocSlice(long, s, end)
             sw == LocSlice(short, s, end)
         IN  [err |-> "",
              freq |-> [index |-> long.columns,
                        long  |-> [j \in 1..NCols(long) |-> ColumnSum(lw, j)],
                        short |-> [j \in 1..NCols(short) |-> ColumnSum(sw, j)]]]

\* holding_freq on Series masks: each sum is one number, and the table of
\* the two numbers has the one row the default index gives, labelled 0
HoldingFreq(long, short, series, start, end) ==
    LET r == holding_freq(long, short, start, end)
    IN  IF series /\ r.err = ""
        THEN [err |-> "", freq |-> [r.freq EXCEPT !.index = <<"0">>]]
        ELSE r

\* the dates a caller passes as start and end: none, or one of the dates
FreqDates == {None, 1, 2}

\* p.holding_freq(start, end) on a constructed Position
holding_freq__call ==
    /\ pos_pc = "ok" /\ freq_pc = "idle"
    /\ \E start \in FreqDates : \E end \in FreqDates :
       \E r \in {HoldingFreq(uw_posi_long, uw_posi_short, is_series, start, end)} :
          /\ hf_start' = start
          /\ hf_end' = end
          /\ freq_pc' = IF r.err = "" THEN "ok" ELSE r.err
          /\ freq' = r.freq
    /\ UNCHANGED <<nwVars, posVars, ls, parseVars, negVars, callVars>>

---------------------------------------------------------------------------
(* NetWorth: the construction checks *)

\* 1.00000001, the tolerance of the gross-exposure check
ExposureLimit == <<100000001, 100000000>>

\* NetWorth._check_posi_legal
check_posi_legal(pos, ignore) ==
    IF ignore THEN TRUE
    ELSE ~ \E k \in 1..NRows(pos) :
             FLt(ExposureLimit,
                 NanSum([j \in 1..NCols(pos) |-> FAbs(pos.vals[k][j])]))

\* position.dropna(how="all", axis=1).dropna(how="all", axis=0)
\*         .replace(0, np.nan)
DroppedPosi(pos) ==
    LET cols == SortedSeq({j \in 1..NCols(pos) :
                    \E k \in 1..NRows(pos) : ~IsNaN(pos.vals[k][j])})
        rows == SortedSeq({k \in 1..NRows(pos) :
                    \E j \in Range(cols) : ~IsNaN(pos.vals[k][j])})
    IN  [index   |-> [k \in 1..Len(rows) |-> pos.index[rows[k]]],
         columns |-> [j \in 1..Len(cols) |-> pos.columns[cols[j]]],
         vals    |-> [k \in 1..Len(rows) |-> [j \in 1..Len(cols) |->
                        LET v == pos.vals[rows[k]][cols[j]]
                        IN  IF v = R(0) THEN NaN ELSE v]]]

\* the tail of _check_data_match: the date check and the per-column
\* price check, on the (possibly relabelled) dropped position table
DataCovered(pr, dropped) ==
    /\ Range(dropped.index) \subseteq Range(pr.index)
    /\ \A j \in 1..NCols(dropped) : \A k \in 1..NRows(dropped) :
          ~IsNaN(dropped.vals[k][j]) =>
             ~IsNaN(pr.vals[Pos(pr.index, dropped.index[k])]
                           [Pos(pr.columns, dropped.columns[j])])

\* NetWorth._check_data_match.  res is "True", "False" or "ValueError" (a
\* column relabelling of the wrong length); position is self.position as
\* the call leaves it.
check_data_match(pr, pos) ==
    LET dropped == DroppedPosi(pos)
    IN  IF Range(dropped.columns) \subseteq Range(pr.columns)
        THEN [res |-> IF DataCovered(pr, dropped) THEN "True" ELSE "False",
              position |-> pos]
        ELSE IF NCols(dropped) # 1
        THEN [res |-> "False", position |-> pos]
        ELSE IF NCols(pos) # NCols(pr)
        THEN [res |-> "ValueError", position |-> pos]
        ELSE LET aliased == [pos EXCEPT !.columns = pr.columns]
             IN  IF NCols(pr) # 1
                 THEN [res |-> "ValueError", position |-> aliased]
                 ELSE [res |-> IF DataCovered(pr,
                                    [dropped EXCEPT !.columns = pr.columns])
                               THEN "True" ELSE "False",
                       position |-> aliased]

---------------------------------------------------------------------------
(* NetWorth: the vectorized computation *)

\* DataFrame.fillna(method="pad") cell by cell
RECURSIVE PadCell(_, _, _)
PadCell(df, k, j) ==
    IF k = 0 THEN NaN
    ELSE IF ~IsNaN(df.vals[k][j]) THEN df.vals[k][j]
    ELSE PadCell(df, k - 1, j)

\* price.pct_change().to_numpy(): row 1 is NaN, row k is p[k]/p[k-1] - 1,
\* on the forward-filled prices when the library pads
PctChange(df, padfill) ==
    LET p(k, j) == IF padfill THEN PadCell(df, k, j) ELSE df.vals[k][j]
    IN  [k \in 1..NRows(df) |-> [j \in 1..NCols(df) |->
            IF k = 1 THEN NaN ELSE FSub(FDiv(p(k, j), p(k - 1, j)), R(1))]]

\* position.shift().fillna(0).to_numpy(): row k holds the positions of
\* row k-1, row 1 and missing cells are 0
PosiShiftedNoLag(df) ==
    [k \in 1..NRows(df) |-> [j \in 1..NCols(df) |-> FFillna0(df.vals[k][j])]]
PosiShifted(df) ==
    [k \in 1..NRows(df) |-> [j \in 1..NCols(df) |->
        IF k = 1 THEN R(0) ELSE FFillna0(df.vals[k - 1][j])]]

\* np.vstack([zeros, np.diff(posi_shifted, axis=0)])
PosiChange(shifted) ==
    [k \in 1..Len(shifted) |-> [j \in 1..Len(shifted[k]) |->
        IF k = 1 THEN R(0) ELSE FSub(shifted[k][j], shifted[k - 1][j])]]

\* posi_change * self.fee, the sign of the change kept
TranCostSigned(change, f) ==
    [k \in 1..Len(change) |-> [j \in 1..Len(change[k]) |->
        FMul(change[k][j], f)]]
\* np.abs(posi_change) * self.fee
TranCost(change, f) ==
    [k \in 1..Len(change) |-> [j \in 1..Len(change[k]) |->
        FMul(FAbs(change[k][j]), f)]]

\* numpy broadcasting of an a-long axis against a b-long axis
Broadcastable(a, b) == a = b \/ a = 1 \/ b = 1
Max2(a, b) == IF a >= b THEN a ELSE b
BIdx(n, k) == IF n = 1 THEN 1 ELSE k

\* (np.nansum(p_return * posi_shifted - tran_cost, axis=1) + 1), one entry
\* per row of the broadcast array
GrowthRows(p_return, shifted, cost) ==
    LET tp == Len(p_return)
        np == Len(p_return[1])
        tq == Len(shifted)
        nq == Len(shifted[1])
    IN  [k \in 1..Max2(tp, tq) |->
            FAdd(NanSum([j \in 1..Max2(np, nq) |->
                    FSub(FMul(p_return[BIdx(tp, k)][BIdx(np, j)],
                              shifted[BIdx(tq, k)][BIdx(nq, j)]),
                         cost[BIdx(tq, k)][BIdx(nq, j)])]),
                 R(1))]

\* ndarray.cumprod
CumProd(g) ==
    LET w[k \in 1..Len(g)] == IF k = 1 THEN g[1] ELSE FMul(w[k - 1], g[k])
    IN  [k \in 1..Len(g) |-> w[k]]

NoSeries == [index |-> <<>>, vals |-> <<>>]

\* NetWorth._calc_networth_vector.  err is "" or the exception raised.
calc_networth_vector(pr, pos, f, padfill) ==
    LET start == first_valid_index(pos)
        end   == last_valid_index(pos)
        p     == LocSlice(pr, start, end)
        q     == LocSlice(pos, start, end)
        tp    == NRows(p)
        tq    == NRows(q)
    IN  IF ~(Broadcastable(tp, tq) /\ Broadcastable(NCols(p), NCols(q)))
        THEN [err |-> "ValueError: operands could not be broadcast together",
              series |-> NoSeries]
        ELSE IF Max2(tp, tq) # tp
        THEN [err |-> "ValueError: Length of values does not match length of index",
              series |-> NoSeries]
        ELSE LET shifted == PosiShifted(q)
                 cost    == TranCost(PosiChange(shifted), f)
             IN  [err |-> "",
                  series |-> [index |-> p.index,
                              vals  |-> CumProd(GrowthRows(
                                          PctChange(p, padfill), shifted, cost))]]


---------------------------------------------------------------------------
(* NetWorth: the sequential computation *)

\* the cell of row k under column label c, NaN when the table has no such
\* column (pandas aligns Series arithmetic on labels)
CellAt(df, k, c) ==
    IF c \in Range(df.columns) THEN df.vals[k][Pos(df.columns, c)] ELSE NaN

\* the union of the column labels of two tables
LabelUnion(p, q) ==
    LET new(c) == c \notin Range(p.columns)
    IN  p.columns \o SelectSeq(q.columns, new)

\* position.loc[start:end].shift(1).replace(0, np.nan) at row k, label c
PosiLagged(q, k, c) ==
    LET v == IF k = 1 THEN NaN ELSE CellAt(q, k - 1, c)
    IN  IF v = R(0) THEN NaN ELSE v

\* one pass of the loop body for the price-window row k >= 2 (date
\* d = p.index[k]), from the state st = [w, hold] the previous row left:
\* w is nworth.iloc[k-1] and hold is last_hold
ProgressStep(p, q, f, labels, st, k) ==
    LET kq         == Pos(q.index, p.index[k])
        last_price(c) == CellAt(p, k - 1, c)
        hold       == [n \in 1..Len(labels) |->
                         FFillna0(FDiv(FMul(st.w, PosiLagged(q, kq, labels[n])),
                                       last_price(labels[n])))]
        tran_cost  == [n \in 1..Len(labels) |->
                         FMul(FMul(FAbs(FSub(hold[n], st.hold[n])),
                                   last_price(labels[n])), f)]
        gain       == [n \in 1..Len(labels) |->
                         FMul(hold[n], FSub(CellAt(p, k, labels[n]),
                                            last_price(labels[n])))]
    IN  [w    |-> FSub(FAdd(st.w, NanSum(gain)), NanSum(tran_cost)),
         hold |-> hold]

\* NetWorth._calc_networth_progress.  err is "" or the exception raised:
\* posi.loc[d] raises KeyError for a price date the position table lacks.
calc_networth_progress(pr, pos, f) ==
    LET start  == first_valid_index(pos)
        end    == last_valid_index(pos)
        p      == LocSlice(pr, start, end)
        q      == LocSlice(pos, start, end)
        labels == LabelUnion(p, q)
        st[k \in 1..NRows(p)] ==
            IF k = 1 THEN [w |-> R(1), hold |-> [n \in 1..Len(labels) |-> R(0)]]
            ELSE ProgressStep(p, q, f, labels, st[k - 1], k)
    IN  IF \E k \in 2..NRows(p) : p.index[k] \notin Range(q.index)
        THEN [err |-> "KeyError: date", series |-> NoSeries]
        ELSE [err |-> "",
              series |-> [index |-> p.index,
                          vals  |-> [k \in 1..NRows(p) |-> st[k].w]]]

\* NetWorth._calc_networth
calc_networth(m, pr, pos, f, padfill) ==
    IF m = "progress" THEN calc_networth_progress(pr, pos, f)
    ELSE calc_networth_vector(pr, pos, f, padfill)

---------------------------------------------------------------------------
(* NetWorth: construction *)

\* NetWorth.__init__ as a function of its arguments: the state the
\* constructor leaves, pc "ok" or the exception that ended it
Construct(pr, pos, f, ignore, m, padfill) ==
    LET dm == check_data_match(pr, pos)
    IN  IF dm.res = "ValueError"
        THEN [pc |-> "ValueError: Length mismatch", position |-> dm.position,
              networth |-> NoSeries]
        ELSE IF dm.res = "False"
        THEN [pc |-> "Data mismatch", position |-> dm.position, networth |-> NoSeries]
        ELSE IF ~check_posi_legal(dm.position, ignore)
        THEN [pc |-> "Illegal position", position |-> dm.position,
              networth |-> NoSeries]
        ELSE LET nw == calc_networth(m, pr, dm.position, f, padfill)
             IN  [pc |-> IF nw.err = "" THEN "ok" ELSE nw.err,
                  position |-> dm.position, networth |-> nw.series]

\* NetWorth.__init__(price, position, fee, ignore_posi_exceed, method)
NetWorth__init__ ==
    /\ nw_pc = "new"
    /\ \E c \in {Construct(price, position, fee, ignore_posi_exceed, method, pad)} :
          /\ nw_pc' = c.pc
          /\ position' = c.position
          /\ networth' = c.networth
    /\ UNCHANGED <<price, fee, ignore_posi_exceed, method, pad>>
    /\ UNCHANGED <<posVars, ls, parseVars, negVars, freqVars, callVars>>


---------------------------------------------------------------------------
(* NetWorth: the methods of a constructed object *)

\* df[col] passed to NetWorth.__init__, where Series.to_frame() makes it a
\* table of the one column col
Column(df, col) ==
    [index   |-> df.index,
     columns |-> <<col>>,
     vals    |-> [k \in 1..NRows(df) |-> <<df.vals[k][Pos(df.columns, col)]>>]]

\* NetWorth.single_networth(col): NetWorth(self.price[col],
\* self.position[col], self.fee), with the default ignore_posi_exceed
\* (False) and the default method ("vector")
single_networth(pr, pos, f, col, padfill) ==
    IF NCols(pos) = 1
    THEN [pc |-> "ValueError: Only one column in the position data",
          networth |-> NoSeries]
    ELSE IF col \notin Range(pr.columns) \/ col \notin Range(pos.columns)
    THEN [pc |-> "KeyError: col", networth |-> NoSeries]
    ELSE LET c == Construct(Column(pr, col), Column(pos, col), f, FALSE,
                            "vector", padfill)
         IN  [pc |-> c.pc, networth |-> c.networth]

\* nw.single_networth(col) on a constructed NetWorth, col one of its
\* position columns
single_networth__call ==
    /\ nw_pc = "ok" /\ sn_pc = "idle"
    /\ \E col \in Range(position.columns) :
       \E r \in {single_networth(price, position, fee, col, pad)} :
          /\ sn_col' = col
          /\ sn_pc' = r.pc
          /\ sn_networth' = r.networth
    /\ UNCHANGED <<nwVars, posVars, ls, parseVars, negVars, freqVars, perfVars>>

\* StratPerf.__init__(net_worth, posi, price=None, baseline=None): "" or
\* the exception raised.  posi is a required argument.
StratPerf__init__(net_worth, posi_given, posi_table) ==
    IF ~posi_given
    THEN "TypeError: missing 1 required positional argument: 'posi'"
    ELSE IF net_worth.index # posi_table.index THEN "AssertionError: Index mismatch"
    ELSE IF \E k \in 1..Len(net_worth.vals) : IsNaN(net_worth.vals[k])
    THEN "AssertionError: Asset contains NaN"
    ELSE IF \E k \in 1..NRows(posi_table) : \E j \in 1..NCols(posi_table) :
               IsNaN(posi_table.vals[k][j])
    THEN "AssertionError: Position contains NaN"
    ELSE ""

MaxCalls == 3    \* calls of total_perf and annual_perf on one NetWorth

\* the body shared by total_perf and annual_perf: if self.perf is None,
\* self.perf = StratPerf(self.networth), without a position table; then the
\* summary is read from self.perf
PerfAccess(name) ==
    /\ nw_pc = "ok" /\ perf_calls < MaxCalls
    /\ \E e \in {IF perf = "None" THEN StratPerf__init__(networth, FALSE, NoTable)
                  ELSE ""} :
          /\ perf' = IF e = "" THEN "StratPerf" ELSE perf
          /\ perf_made' = IF perf = "None" /\ e = "" THEN perf_made + 1 ELSE perf_made
          /\ perf_pc' = IF e = "" THEN "ok" ELSE e
    /\ perf_call' = name
    /\ perf_calls' = perf_calls + 1
    /\ UNCHANGED <<nwVars, posVars, ls, parseVars, negVars, freqVars, singleVars>>

\* nw.total_perf()
total_perf__call == PerfAccess("total_perf")

\* nw.annual_perf()
annual_perf__call == PerfAccess("annual_perf")

---------------------------------------------------------------------------
(* The inputs of NetWorth *)

MaxRows  == 3    \* rows of the one-instrument tables with equal date indexes
MaxDates == 5    \* dates of the one-instrument tables with any date indexes

PosVals   == {NaN, R(0), Frac(1, 2), R(-1)}
PriceVals == {R(2), R(3)}
Fees      == {R(0), Frac(1, 10)}
Methods   == {"vector", "progress"}

Tables(idx, cols, V) ==
    {[index |-> idx, columns |-> cols, vals |-> v] :
        v \in [1..Len(idx) -> [1..Len(cols) -> V]]}

\* the tables whose rows are drawn from a set of rows
TablesOfRows(idx, cols, rows) ==
    {[index |-> idx, columns |-> cols, vals |-> v] : v \in [1..Len(idx) -> rows]}

HasNaN(df) ==
    \E k \in 1..NRows(df) : \E j \in 1..NCols(df) : IsNaN(df.vals[k][j])

\* the objects a specification does not construct
NoLs    == [kind |-> "none", num |-> NaN, str |-> <<>>]

IdleNW ==
    /\ price = NoTable /\ position = NoTable /\ fee = R(0)
    /\ ignore_posi_exceed = FALSE /\ method = "" /\ pad = FALSE
    /\ networth = NoSeries /\ nw_pc = "idle"

IdlePos ==
    /\ factor = NoTable /\ is_series = FALSE /\ mode = "" /\ weight = ""
    /\ uw_posi_long = NoTable /\ uw_posi_short = NoTable /\ posi = NoTable
    /\ pos_pc = "idle"

IdleParse ==
    /\ data_type = "" /\ ranges = [l |-> NoRange, s |-> NoRange]
    /\ parse_pc = "idle"

IdleCalls ==
    /\ neg_posi = NoTable /\ neg_pc = "idle"
    /\ hf_start = None /\ hf_end = None /\ freq = NoFreq /\ freq_pc = "idle"
    /\ sn_col = "" /\ sn_networth = NoSeries /\ sn_pc = "idle"
    /\ perf = "None" /\ perf_made = 0
    /\ perf_call = "" /\ perf_calls = 0 /\ perf_pc = "idle"

\* the arguments that only matter on some inputs are varied only there:
\* the exposure flag where a row exceeds 1, the library's padding where a
\* price is missing
Flags(pos) == IF check_posi_legal(pos, FALSE) THEN {FALSE} ELSE BOOLEAN
Pads(pr)    == IF HasNaN(pr) THEN BOOLEAN ELSE {FALSE}

NWStart(pr, pos) ==
    /\ price = pr
    /\ position = pos
    /\ fee \in Fees
    /\ method \in Methods
    /\ ignore_posi_exceed \in Flags(pos)
    /\ pad \in Pads(pr)
    /\ networth = NoSeries
    /\ nw_pc = "new"
    /\ IdlePos /\ ls = NoLs /\ IdleParse /\ IdleCalls

\* one instrument, equal date indexes, every price present
InitRich ==
    \E pr \in Tables(SortedSeq(1..MaxRows), <<"A">>, PriceVals) :
    \E pos \in Tables(SortedSeq(1..MaxRows), <<"A">>, PosVals) :
        NWStart(pr, pos)

\* one instrument, equal date indexes, some price missing
InitMissing ==
    \E pr \in Tables(SortedSeq(1..MaxRows), <<"A">>, PriceVals \cup {NaN}) :
    \E pos \in Tables(SortedSeq(1..MaxRows), <<"A">>, {NaN, R(0), R(-1)}) :
        HasNaN(pr) /\ NWStart(pr, pos)

\* two instruments over three dates, the same columns in both tables
InitTwo ==
    \E pa \in [1..3 -> PriceVals] :
    \E pb \in {<<R(2), R(3), R(2)>>} :
    \E pos \in TablesOfRows(<<1, 2, 3>>, <<"A", "B">>,
                    {<<Frac(1, 2), Frac(1, 2)>>, <<R(0), R(-1)>>,
                     <<Frac(1, 2), R(0)>>, <<NaN, Frac(1, 2)>>,
                     <<R(-1), Frac(1, 2)>>}) :
        NWStart([index |-> <<1, 2, 3>>, columns |-> <<"A", "B">>,
                 vals |-> [k \in 1..3 |-> <<pa[k], pb[k]>>]], pos)

\* one or two position columns over two dates against price tables whose
\* columns are the same, reordered, fewer, more or other
InitColumns ==
    \E pcols \in {<<"A", "B">>, <<"B", "A">>, <<"A">>, <<"B">>,
                  <<"A", "B", "C">>, <<"A", "C">>} :
    \E qcols \in {<<"A", "B">>, <<"A">>} :
    \E prow \in [1..Len(pcols) -> PriceVals] :
    \E q1 \in [1..Len(qcols) -> PosVals] :
    \E q2 \in [1..Len(qcols) -> {NaN, Frac(1, 2)}] :
        NWStart([index |-> <<1, 2>>, columns |-> pcols,
                 vals |-> <<[j \in 1..Len(pcols) |-> R(2)], prow>>],
                [index |-> <<1, 2>>, columns |-> qcols, vals |-> <<q1, q2>>])

\* one instrument, any two date indexes; the price of date d is fixed and
\* the first and the last position are present
DatePrice(d) == R(2 + (d % 2))
InitDates ==
    \E pidx \in SUBSET (1..MaxDates) : \E qidx \in SUBSET (1..MaxDates) :
    \E pos \in Tables(SortedSeq(qidx), <<"A">>, {NaN, Frac(1, 2)}) :
        /\ pidx # {} /\ qidx # {}
        /\ ~IsNaN(pos.vals[1][1]) /\ ~IsNaN(pos.vals[NRows(pos)][1])
        /\ NWStart([index |-> SortedSeq(pidx), columns |-> <<"A">>,
                    vals |-> [k \in 1..Cardinality(pidx) |->
                                 <<DatePrice(SortedSeq(pidx)[k])>>]],
                   pos)

\* the example scenario of the specification
InitExample ==
    NWStart([index |-> <<1, 2, 3, 4>>, columns |-> <<"A">>,
             vals |-> <<<<R(100)>>, <<R(101)>>, <<R(99)>>, <<R(102)>>>>],
            [index |-> <<1, 2, 3, 4>>, columns |-> <<"A">>,
             vals |-> <<<<R(0)>>, <<R(1)>>, <<R(1)>>, <<R(-1)>>>>])

\* one instrument whose price triples or falls to a third, held long,
\* short or not at all
InitSqueeze ==
    \E pr \in Tables(SortedSeq(1..MaxRows), <<"A">>, {R(1), R(3)}) :
    \E pos \in Tables(SortedSeq(1..MaxRows), <<"A">>, {R(-1), R(0), Frac(1, 2)}) :
        NWStart(pr, pos)

\* a crash under heavy fees: the price falls from 8 to 1 while the
\* instrument is held, with fee rates of 30% and 31%
HeavyFees == {Frac(3, 10), Frac(31, 100)}
InitCrash ==
    /\ price = [index |-> <<1, 2, 3, 4>>, columns |-> <<"A">>,
                vals |-> <<<<R(2)>>, <<R(2)>>, <<R(8)>>, <<R(1)>>>>]
    /\ position = [index |-> <<1, 2, 3, 4>>, columns |-> <<"A">>,
                   vals |-> <<<<R(-1)>>, <<Frac(1, 4)>>, <<R(1)>>, <<Frac(1, 2)>>>>]
    /\ fee \in HeavyFees
    /\ method \in Methods
    /\ ignore_posi_exceed = FALSE /\ pad = FALSE
    /\ networth = NoSeries /\ nw_pc = "new"
    /\ IdlePos /\ ls = NoLs /\ IdleParse /\ IdleCalls

\* two instruments over three dates, the price of the first one missing
\* on the second date
InitGap ==
    \E pos \in TablesOfRows(<<1, 2, 3>>, <<"A", "B">>,
                    {<<Frac(1, 2), Frac(1, 2)>>, <<R(0), Frac(1, 2)>>,
                     <<R(0), R(-1)>>, <<NaN, R(0)>>}) :
        NWStart([index |-> <<1, 2, 3>>, columns |-> <<"A", "B">>,
                 vals |-> <<<<R(2), R(2)>>, <<NaN, R(3)>>, <<R(3), R(2)>>>>],
                pos)

InitNW ==
    \/ InitExample \/ InitDates \/ InitColumns \/ InitRich \/ InitMissing
    \/ InitTwo \/ InitSqueeze \/ InitCrash \/ InitGap

NextNW == NetWorth__init__

SpecNW == InitNW /\ [][NextNW]_vars

\* two instruments over three dates, one of them levered beyond 1, built
\* with and without the exposure check
InitLever ==
    \E pos \in TablesOfRows(<<1, 2, 3>>, <<"A", "B">>,
                    {<<Frac(3, 2), R(0)>>, <<Frac(1, 2), Frac(1, 2)>>,
                     <<R(0), R(-1)>>, <<NaN, Frac(1, 2)>>}) :
        NWStart([index |-> <<1, 2, 3>>, columns |-> <<"A", "B">>,
                 vals |-> <<<<R(2), R(2)>>, <<R(3), R(2)>>, <<R(2), R(3)>>>>],
                pos)

\* a NetWorth is constructed and then asked for one instrument's NetWorth
InitSingle == InitNW \/ InitLever

NextSingle == NetWorth__init__ \/ single_networth__call

SpecSingle == InitSingle /\ [][NextSingle]_vars

\* a NetWorth is constructed and then asked for its performance
InitPerf == InitExample \/ InitRich \/ InitSqueeze

NextPerf == NetWorth__init__ \/ total_perf__call \/ annual_perf__call

SpecPerf == InitPerf /\ [][NextPerf]_vars


---------------------------------------------------------------------------
(* Claims about NetWorth *)

\* the position-table rows inside the simulation window
WindowRows(pos) ==
    LET start == first_valid_index(pos)
        end   == last_valid_index(pos)
    IN  SortedSeq({k \in 1..NRows(pos) :
            start # None /\ pos.index[k] >= start /\ pos.index[k] <= end})

\* the price of instrument c on date d, NaN when the price table has no
\* such date or no such column
PriceOf(pr, d, c) ==
    IF d \in Range(pr.index) THEN CellAt(pr, Pos(pr.index, d), c) ELSE NaN

\* every position instrument has a price on every date of the window
NoMissingPrice(pr, pos) ==
    /\ WindowRows(pos) # <<>>
    /\ \A k \in Range(WindowRows(pos)) : \A c \in Range(pos.columns) :
          ~IsNaN(PriceOf(pr, pos.index[k], c))

\* the recurrence of the specification over the window rows rows[1..n] of
\* the position table, instruments matched by label, a missing position
\* counted as no exposure
RefWorth(pr, pos, f) ==
    LET rows == WindowRows(pos)
        q(n, c) == IF n < 1 THEN R(0) ELSE FFillna0(CellAt(pos, rows[n], c))
        ret(n, c) == FSub(FDiv(PriceOf(pr, pos.index[rows[n]], c),
                               PriceOf(pr, pos.index[rows[n - 1]], c)), R(1))
        cols == pos.columns
        net(n) == FSub(SumSeq([j \in 1..Len(cols) |->
                           FMul(ret(n, cols[j]), q(n - 1, cols[j]))]),
                       FMul(f, SumSeq([j \in 1..Len(cols) |->
                           FAbs(FSub(q(n - 1, cols[j]), q(n - 2, cols[j])))])))
        w[n \in 1..Len(rows)] ==
            IF n = 1 THEN R(1) ELSE FMul(w[n - 1], FAdd(R(1), net(n)))
    IN  [n \in 1..Len(rows) |-> w[n]]

\* the value of a date-indexed series at date d, NaN when it has no entry
SeriesAt(ser, d) ==
    IF d \in Range(ser.index) THEN ser.vals[Pos(ser.index, d)] ELSE NaN

IsExample ==
    /\ price.vals = <<<<R(100)>>, <<R(101)>>, <<R(99)>>, <<R(102)>>>>
    /\ position.vals = <<<<R(0)>>, <<R(1)>>, <<R(1)>>, <<R(-1)>>>>
    /\ fee = R(0)

\* C1: a vectorized net worth built from inputs that pass the checks and
\* have every price of the window follows the recurrence
\*   w[d0] = 1,
\*   w[t] = w[t-1] * (1 + sum_i (price[t,i]/price[t-1,i] - 1) * position[t-1,i]
\*                      - fee * sum_i |position[t-1,i] - position[t-2,i]|)
\* with instrument i the same instrument in both tables; and the example
\* prices [100,101,99,102], positions [0,1,1,-1], fee 0 give
\* [1, 1, 99/101, 102/101].
C1_VectorRecurrence ==
    (nw_pc = "ok" /\ method = "vector" /\ NoMissingPrice(price, position)) =>
        /\ LET rows == WindowRows(position)
               ref  == RefWorth(price, position, fee)
           IN  \A n \in 1..Len(rows) :
                  SeriesAt(networth, position.index[rows[n]]) = ref[n]
        /\ IsExample =>
              networth.vals = <<R(1), R(1), Frac(99, 101), Frac(102, 101)>>


\* the position table with row k replaced
WithRow(pos, k, row) == [pos EXCEPT !.vals[k] = row]

\* the series of two simulations agree on every date up to d
AgreeUpTo(a, b, d) ==
    \A k \in 1..Len(a.index) :
        a.index[k] <= d =>
            /\ a.index[k] \in Range(b.index)
            /\ SeriesAt(b, a.index[k]) = a.vals[k]

\* C2: no lookahead.  Replacing the positions of one date t by any other
\* values, such that the table still passes the checks and keeps its first
\* and last valid dates, leaves the net worth of every date <= t unchanged
\* (same prices, fee and strategy).
C2_NoLookahead ==
    nw_pc = "ok" =>
        \A k \in 1..NRows(position) :
        \A row \in [1..NCols(position) -> PosVals] :
            LET posi2 == WithRow(position, k, row)
                c2    == Construct(price, posi2, fee, ignore_posi_exceed,
                                   method, pad)
            IN  (/\ c2.pc = "ok"
                 /\ first_valid_index(posi2) = first_valid_index(position)
                 /\ last_valid_index(posi2) = last_valid_index(position))
                => AgreeUpTo(networth, c2.networth, position.index[k])


\* |a - b| <= 1e-9 * |b| for two non-missing values
RelClose(a, b) ==
    /\ ~IsNaN(a) /\ ~IsNaN(b)
    /\ \/ a = b
       \/ LET diff == FAbs(FSub(a, b))
              g    == Gcd(diff[2], b[2])
          IN  diff[1] * (b[2] \div g) <= (Abs(b[1]) * (diff[2] \div g)) \div 1000000000

OtherMethod(m) == IF m = "vector" THEN "progress" ELSE "vector"

\* C3: whenever one strategy produces a net-worth series from inputs that
\* pass the checks, the other strategy produces a series over the same
\* dates that agrees with it at every date within 1e-9 relative tolerance.
C3_VectorProgressAgree ==
    nw_pc = "ok" =>
        LET o == Construct(price, position, fee, ignore_posi_exceed,
                           OtherMethod(method), pad)
        IN  /\ o.pc = "ok"
            /\ o.networth.index = networth.index
            /\ \A k \in 1..Len(networth.index) :
                  RelClose(networth.vals[k], o.networth.vals[k])

\* C4: every constructed net-worth series starts at exactly 1.
C4_StartsAtOne ==
    nw_pc = "ok" => (Len(networth.vals) >= 1 /\ networth.vals[1] = R(1))

\* C4 witness: a series built with a fee from a table whose first row holds
\* a position, so a fee or a return at the first date would show.
C4_Witness ==
    /\ nw_pc = "ok"
    /\ fee # R(0)
    /\ Len(networth.vals) >= 2
    /\ \E j \in 1..NCols(position) :
          position.vals[1][j] \notin {NaN, R(0)}
    /\ networth.vals[2] # R(1)

\* C5: the net-worth series has exactly one entry for each position-table
\* date from the first to the last row holding a position, in date order,
\* and no other entry (for a table with at least one such row).
C5_WindowDates ==
    (nw_pc = "ok" /\ first_valid_index(position) # None) =>
        LET rows == WindowRows(position)
        IN  networth.index = [n \in 1..Len(rows) |-> position.index[rows[n]]]


---------------------------------------------------------------------------
(* Claims about the checks of NetWorth *)

\* instrument j of the position table has a non-missing, nonzero position
NeedsPrice(pos, j) ==
    \E k \in 1..NRows(pos) : pos.vals[k][j] \notin {NaN, R(0)}

\* the single-column convenience: one column in each table, the position
\* column takes the label of the price column
SingleColumn(pr, pos) == NCols(pos) = 1 /\ NCols(pr) = 1

\* the price column of position column j, "" when it has none
PriceColumn(pr, pos, j) ==
    IF pos.columns[j] \in Range(pr.columns) THEN pos.columns[j]
    ELSE IF SingleColumn(pr, pos) THEN pr.columns[1]
    ELSE ""

\* the two conditions under which the claim lets the construction fail
\* with "Data mismatch"
MismatchClaimed(pr, pos) ==
    \/ \E j \in 1..NCols(pos) :
          NeedsPrice(pos, j) /\ PriceColumn(pr, pos, j) = ""
    \/ \E j \in 1..NCols(pos) : \E k \in 1..NRows(pos) :
          /\ ~IsNaN(pos.vals[k][j])
          /\ \/ pos.index[k] \notin Range(pr.index)
             \/ /\ PriceColumn(pr, pos, j) # ""
                /\ IsNaN(PriceOf(pr, pos.index[k], PriceColumn(pr, pos, j)))

\* C16: the construction fails with "Data mismatch" exactly when an
\* instrument with a non-missing, nonzero position has no price column
\* (single-column aliasing apart), or a (date, instrument) with a
\* non-missing position has a missing price or a date absent from the price
\* table; in every other case the data-match check passes (an instrument
\* whose positions are all zero needs no price column).
C16_DataMatch ==
    [][(nw_pc = "new" /\ nw_pc' # "new") =>
          ((nw_pc' = "Data mismatch") <=> MismatchClaimed(price, position))]_vars

\* the sum of the absolute values of the non-missing positions of a row
GrossExposure(pos, k) ==
    SumSeq([j \in 1..NCols(pos) |-> FFillna0(FAbs(pos.vals[k][j]))])

\* some row's gross exposure exceeds 1 + 1e-8
Exceeds(pos) ==
    \E k \in 1..NRows(pos) :
        100000000 * GrossExposure(pos, k)[1] > 100000001 * GrossExposure(pos, k)[2]

\* the construction got past the data-match check
DataMatched ==
    nw_pc \notin {"new", "idle", "Data mismatch", "ValueError: Length mismatch"}

\* C17: with ignore_posi_exceed false the construction fails with the
\* illegal-exposure error iff on some date the sum of the absolute position
\* values exceeds 1 + 1e-8, and then no net worth is produced; with the
\* flag true the same input constructs and simulates without error.
C17_GrossExposure ==
    DataMatched =>
        /\ ~ignore_posi_exceed =>
              /\ (nw_pc = "Illegal position") <=> Exceeds(position)
              /\ (nw_pc = "Illegal position") => networth = NoSeries
        /\ (ignore_posi_exceed /\ Exceeds(position)) =>
              nw_pc = "ok" /\ networth # NoSeries

\* C18: the construction either fails in the data-match or the exposure
\* check, before the net-worth computation starts, or the computation runs
\* to completion and returns a series; no error is raised during the
\* computation itself.
C18_EagerFailure ==
    nw_pc \notin {"new", "idle"} =>
        \/ nw_pc \in {"Data mismatch", "ValueError: Length mismatch",
                      "Illegal position"} /\ networth = NoSeries
        \/ nw_pc = "ok" /\ networth # NoSeries

---------------------------------------------------------------------------
(* Claims about the methods of a constructed NetWorth *)

\* C21: on a NetWorth with one position column single_networth fails with
\* an error; on a constructed NetWorth with two or more position columns,
\* single_networth(col) for any of these columns returns the NetWorth of
\* that instrument's price and position column with the same fee, whose
\* net worth is that of simulating the column alone.
C21_SingleNetworth ==
    sn_pc # "idle" =>
        IF NCols(position) = 1
        THEN sn_pc # "ok" /\ sn_networth = NoSeries
        ELSE /\ sn_pc = "ok"
             /\ first_valid_index(Column(position, sn_col)) # None =>
                   sn_networth.vals =
                       RefWorth(Column(price, sn_col), Column(position, sn_col), fee)

---------------------------------------------------------------------------
(* The selector parser applied to selector strings *)

StrLs(str) == [kind |-> "str", num |-> NaN, str |-> str]

\* numeric tokens and tokens no numeric type accepts
Tokens ==
    {<<"1">>, <<"2">>, <<"-", "1">>, <<"1", ".", "5">>, <<".", "5">>,
     <<"1", "_", "0">>, <<"x">>, <<>>}

Clause(d, body) == <<d, ":">> \o body
Pair(a, b) == a \o <<"~">> \o b
Join(r1, r2) == r1 \o <<"_">> \o r2

\* the selector strings built from three tokens: the well-formed shapes
\* and the malformed ones
LsStrings(a, b, c) ==
    {Clause("l", Pair(a, b)), Clause("s", c), Clause("l", a),
     Join(Clause("l", Pair(a, b)), Clause("s", c)),
     Join(Clause("s", c), Clause("l", Pair(a, b))),
     Join(Clause("s", Pair(a, b)), Clause("l", c)),
     <<>>, Clause("x", Pair(a, b)), Pair(a, b),
     Clause("l", Pair(a, Pair(b, c))),
     Join(Clause("l", a), Clause("l", b)),
     Join(Clause("l", a), Join(Clause("s", b), Clause("l", c)))}

InitParse ==
    /\ \E a \in Tokens : \E b \in Tokens : \E c \in Tokens :
          \E str \in LsStrings(a, b, c) : ls = StrLs(str)
    /\ data_type \in {"int", "float"}
    /\ ranges = [l |-> NoRange, s |-> NoRange]
    /\ parse_pc = "new"
    /\ IdleNW /\ IdlePos /\ IdleCalls

\* self._get_ls_range(data_type)
get_ls_range__call ==
    /\ parse_pc = "new"
    /\ ls.kind = "str"
    /\ LET r == get_ls_range(ls.str, data_type)
       IN  /\ parse_pc' = IF r.err = "" THEN "ok" ELSE r.err
           /\ ranges' = [l |-> r.l, s |-> r.s]
    /\ UNCHANGED <<nwVars, posVars, ls, data_type, negVars, freqVars, callVars>>

NextParse == get_ls_range__call

SpecParse == InitParse /\ [][NextParse]_vars

---------------------------------------------------------------------------
(* Claims about the selector parser *)

Parseable(dt, t) == ParseNum(dt, t).ok
NumOf(dt, t) == ParseNum(dt, t).val

\* the round trip for the tokens of the set T: after the call,
\*   "l:a~b" gave long range (a, b) in that order and no short rule,
\*   "s:c" gave short range (c, c) and no long rule,
\*   "l:a~b_s:c" gave what parsing "s:c_l:a~b" gives, both ranges found
RoundTrip(T) ==
    parse_pc # "new" =>
      \A a \in T : \A b \in T : \A c \in T :
        (Parseable(data_type, a) /\ Parseable(data_type, b)
            /\ Parseable(data_type, c)) =>
          /\ ls.str = Clause("l", Pair(a, b)) =>
                /\ parse_pc = "ok"
                /\ ranges.l = <<NumOf(data_type, a), NumOf(data_type, b)>>
                /\ ranges.s = NoRange
          /\ ls.str = Clause("s", c) =>
                /\ parse_pc = "ok"
                /\ ranges.s = <<NumOf(data_type, c), NumOf(data_type, c)>>
                /\ ranges.l = NoRange
          /\ ls.str = Join(Clause("l", Pair(a, b)), Clause("s", c)) =>
                LET o == get_ls_range(Join(Clause("s", c),
                                           Clause("l", Pair(a, b))), data_type)
                IN  /\ parse_pc = "ok" /\ o.err = ""
                    /\ ranges = [l |-> o.l, s |-> o.s]
                    /\ ranges.l = <<NumOf(data_type, a), NumOf(data_type, b)>>
                    /\ ranges.s = <<NumOf(data_type, c), NumOf(data_type, c)>>

\* C10 as stated: the round trip holds for all tokens the numeric type
\* parses.
C10_RoundTripAnyToken == RoundTrip(Tokens)

\* C10 amended: the round trip holds for all tokens the numeric type parses
\* that contain no "_" (int and float accept "1_0", and the parser splits
\* the selector at every "_").
C10_RoundTrip == RoundTrip({t \in Tokens : "_" \notin Range(t)})

\* C10 witness: "l:2~-1_s:1.5" parsed with float, the long range unsorted
C10_Witness ==
    /\ parse_pc = "ok"
    /\ data_type = "float"
    /\ ls.str = Join(Clause("l", Pair(<<"2">>, <<"-", "1">>)),
                     Clause("s", <<"1", ".", "5">>))
    /\ ranges = [l |-> <<R(2), R(-1)>>, s |-> <<Frac(3, 2), Frac(3, 2)>>]

---------------------------------------------------------------------------
(* The inputs of Position *)

MaxFactor == 3    \* the factor values are 1..MaxFactor and NaN

IntLs(n)   == [kind |-> "int", num |-> R(n), str |-> <<>>]
FloatLs(x) == [kind |-> "float", num |-> x, str |-> <<>>]

FactorCols == <<"A", "B", "C">>
FactorVals == {NaN} \cup {R(i) : i \in 1..MaxFactor}
FactorRows == [1..Len(FactorCols) -> FactorVals]

\* second rows of the two-date factor tables: all missing, all distinct,
\* all tied
SecondRows == {<<NaN, NaN, NaN>>, <<R(1), R(2), R(3)>>, <<R(2), R(2), R(2)>>}

Factors ==
    TablesOfRows(<<1>>, FactorCols, FactorRows)
      \cup {[index |-> <<1, 2>>, columns |-> FactorCols, vals |-> <<r1, r2>>] :
               r1 \in FactorRows, r2 \in SecondRows}

\* what the caller passes as ls, valid and invalid, per mode
Selectors(m) ==
    {NoLs} \cup
    CASE m = "abs" ->
           {IntLs(2), FloatLs(Frac(3, 2)),
            StrLs(Join(Clause("l", Pair(<<"2">>, <<"3">>)),
                       Clause("s", Pair(<<"1">>, <<"2">>)))),
            StrLs(Join(Clause("s", <<"1">>), Clause("l", <<"3">>))),
            StrLs(Join(Clause("l", <<"2">>), Clause("s", <<"2">>))),
            StrLs(Join(Clause("l", Pair(<<"3">>, <<"2">>)), Clause("s", <<"1">>))),
            StrLs(Clause("l", <<"2">>)),
            StrLs(Join(Clause("l", <<"x">>), Clause("s", <<"1">>)))}
      [] m = "rank" ->
           {IntLs(1), IntLs(2), IntLs(3), IntLs(0), IntLs(-1), FloatLs(R(2)),
            StrLs(Join(Clause("l", Pair(<<"1">>, <<"2">>)), Clause("s", <<"1">>))),
            StrLs(Join(Clause("l", Pair(<<"2">>, <<"3">>)),
                       Clause("s", Pair(<<"2">>, <<"2">>)))),
            StrLs(Clause("s", <<"1">>)),
            StrLs(Join(Clause("l", <<"1", ".", "5">>), Clause("s", <<"1">>)))}
      [] m = "quantile" ->
           {FloatLs(Frac(1, 4)), FloatLs(Frac(1, 3)), FloatLs(Frac(1, 2)),
            FloatLs(Frac(3, 4)), FloatLs(R(0)), FloatLs(R(1)), IntLs(1),
            StrLs(Join(Clause("l", Pair(<<"0">>, <<".", "5">>)),
                       Clause("s", Pair(<<"0">>, <<".", "5">>)))),
            StrLs(Join(Clause("l", Pair(<<".", "5">>, <<"1">>)),
                       Clause("s", <<"1">>))),
            StrLs(Clause("l", <<".", "5">>))}
      [] OTHER -> {IntLs(1)}

Modes   == {"abs", "rank", "quantile", "foo"}
\* the DataFrame passed as weight when weight = "table": of the factor's
\* shape, 1/2, 1/3, 1/4 in the columns
WeightTable(f) ==
    LikeFactor(f, [k \in Rows(f), j \in Cols(f) |-> Frac(1, j + 1)])
Weights == {"equal", "value", "foo", "table", "none"}

\* every weight on the one-date tables, the default on the others
InitPos ==
    /\ factor \in Factors
    /\ is_series = FALSE
    /\ mode \in Modes
    /\ ls \in Selectors(mode)
    /\ weight \in (IF NRows(factor) = 1 THEN Weights ELSE {"equal"})
    /\ uw_posi_long = NoTable /\ uw_posi_short = NoTable /\ posi = NoTable
    /\ pos_pc = "new"
    /\ IdleNW /\ IdleParse /\ IdleCalls

NextPos == Position__init__

SpecPos == InitPos /\ [][NextPos]_vars

\* a Series as the factor: one instrument over one or two dates, every
\* mode and selector, every weight on the one-date series
SeriesDates == 2
InitSeries ==
    /\ \E n \in 1..SeriesDates :
          factor \in Tables(SortedSeq(1..n), <<"A">>, FactorVals)
    /\ is_series = TRUE
    /\ mode \in Modes
    /\ ls \in Selectors(mode)
    /\ weight \in (IF NRows(factor) = 1 THEN Weights ELSE {"equal"})
    /\ uw_posi_long = NoTable /\ uw_posi_short = NoTable /\ posi = NoTable
    /\ pos_pc = "new"
    /\ IdleNW /\ IdleParse /\ IdleCalls

SpecSeries == InitSeries /\ [][NextPos]_vars

\* a Position is constructed and then negated
NextNeg == Position__init__ \/ Position__neg__

SpecNeg == InitPos /\ [][NextNeg]_vars

\* a Position is constructed and then asked for its holding frequency
NextFreq == Position__init__ \/ holding_freq__call

SpecFreq == InitPos /\ [][NextFreq]_vars

---------------------------------------------------------------------------
(* Claims about Position *)

\* comparisons of two non-missing rationals by cross-multiplication
Less(x, y) == x[1] * y[2] < y[1] * x[2]
AtMost(x, y) == x[1] * y[2] <= y[1] * x[2]

Cells(df) == {<<k, j>> : k \in 1..NRows(df), j \in 1..NCols(df)}
Selected ==
    {c \in Cells(posi) :
        uw_posi_long.vals[c[1]][c[2]] \/ uw_posi_short.vals[c[1]][c[2]]}
OneSided ==
    {c \in Cells(posi) :
        uw_posi_long.vals[c[1]][c[2]] # uw_posi_short.vals[c[1]][c[2]]}
GrossOfRow(k) == SumSeq([j \in 1..NCols(posi) |-> FAbs(posi.vals[k][j])])
NearOne(x) ==
    ~IsNaN(x) /\ AtMost(FAbs(FSub(x, R(1))), Frac(1, 100000000))
ZeroRow(k) == \A j \in 1..NCols(posi) : posi.vals[k][j] = R(0)

\* the equal-weight row invariant, "chosen" the cells that make a row a
\* row with a selection
EqualWeightRows(chosen) ==
    (pos_pc = "ok" /\ weight = "equal") =>
        /\ ~HasNaN(posi)
        /\ \A k \in 1..NRows(posi) :
              IF \E j \in 1..NCols(posi) : <<k, j>> \in chosen
              THEN NearOne(GrossOfRow(k))
              ELSE ZeroRow(k)

\* C6 as stated: with weight "equal", a row with at least one selected
\* instrument (long or short) has absolute values summing to 1 within 1e-8,
\* a row with none is all zero, and no cell is NaN.
C6_EqualWeightSelected == EqualWeightRows(Selected)

\* C6 amended: with weight "equal", a row with at least one instrument
\* selected on exactly one side has absolute values summing to 1 within
\* 1e-8, a row with none (nothing selected, or every selected instrument
\* selected on both sides) is all zero, and no cell is NaN.
C6_EqualWeightNet == EqualWeightRows(OneSided)

\* C6 witness: a row with one instrument selected on both sides and one on
\* the long side only, which carries the whole weight
C6_Witness ==
    /\ pos_pc = "ok" /\ weight = "equal"
    /\ \E k \in 1..NRows(posi) : \E i, j \in 1..NCols(posi) :
          /\ uw_posi_long.vals[k][i] /\ uw_posi_short.vals[k][i]
          /\ uw_posi_long.vals[k][j] /\ ~uw_posi_short.vals[k][j]
          /\ posi.vals[k][i] = R(0)
          /\ posi.vals[k][j] = R(1)

\* the number of cells of row k selected on exactly one side
OneSidedIn(k) == Cardinality({j \in 1..NCols(posi) : <<k, j>> \in OneSided})

\* C26: with weight "equal" every cell is (L - S) / n, L and S being 1 when
\* the cell is long- or short-selected and n the number of cells of its row
\* selected on exactly one side; a cell selected on both sides is 0 and a
\* row with n = 0 is all zero.
C26_EqualNetting ==
    (pos_pc = "ok" /\ weight = "equal") =>
        \A c \in Cells(posi) :
            posi.vals[c[1]][c[2]] =
                IF OneSidedIn(c[1]) = 0 THEN R(0)
                ELSE Frac(BoolInt(uw_posi_long.vals[c[1]][c[2]])
                          - BoolInt(uw_posi_short.vals[c[1]][c[2]]),
                          OneSidedIn(c[1]))

\* C26 witness: a row of two one-sided cells, one of them short with the
\* value -1/2, and a row whose only selected cells are selected on both
\* sides
C26_Witness ==
    /\ pos_pc = "ok" /\ weight = "equal"
    /\ \E k \in 1..NRows(posi) : \E j \in 1..NCols(posi) :
          /\ OneSidedIn(k) = 2
          /\ uw_posi_short.vals[k][j] /\ ~uw_posi_long.vals[k][j]
          /\ posi.vals[k][j] = Frac(-1, 2)
    /\ \E k \in 1..NRows(posi) : \E j \in 1..NCols(posi) :
          /\ OneSidedIn(k) = 0
          /\ uw_posi_long.vals[k][j] /\ uw_posi_short.vals[k][j]
          /\ posi.vals[k][j] = R(0)

\* the RangeSpec of a selector string
RangeSpec(sel, dt) == get_ls_range(sel.str, dt)

\* C7: in abs mode, with a number s a cell is long iff factor >= s and
\* short iff factor <= s; with a RangeSpec a cell is long iff
\* longLo <= factor <= longHi and short iff shortLo <= factor <= shortHi;
\* a cell with a missing factor is on neither side.
C7_AbsSelection ==
    (pos_pc = "ok" /\ mode = "abs") =>
      \A c \in Cells(factor) :
        LET x == factor.vals[c[1]][c[2]]
            long  == uw_posi_long.vals[c[1]][c[2]]
            short == uw_posi_short.vals[c[1]][c[2]]
        IN  IF IsNaN(x) THEN ~long /\ ~short
            ELSE IF IsNumber(ls)
            THEN /\ long <=> AtMost(ls.num, x)
                 /\ short <=> AtMost(x, ls.num)
            ELSE LET r == RangeSpec(ls, "float")
                 IN  /\ long <=> (AtMost(r.l[1], x) /\ AtMost(x, r.l[2]))
                     /\ short <=> (AtMost(r.s[1], x) /\ AtMost(x, r.s[2]))

\* C7 witness: a number selector with a cell equal to it on both sides, a
\* cell above it long only and a missing cell on neither side
C7_Witness ==
    /\ pos_pc = "ok" /\ mode = "abs" /\ ls = IntLs(2)
    /\ factor.vals[1] = <<R(2), NaN, R(3)>>
    /\ uw_posi_long.vals[1] = <<TRUE, FALSE, TRUE>>
    /\ uw_posi_short.vals[1] = <<TRUE, FALSE, FALSE>>

\* C7 witness of the RangeSpec case is part of the formula's reach:
\* "l:2~3_s:1~2" constructs, and 2 is in both ranges
C7_RangeReached ==
    /\ pos_pc = "ok" /\ mode = "abs" /\ ls.kind = "str"
    /\ \E c \in Cells(factor) :
          uw_posi_long.vals[c[1]][c[2]] /\ uw_posi_short.vals[c[1]][c[2]]

\* the cells of a row that come before cell j in the ranking order, and
\* the cells tied with it (cell j included), missing cells left out
Ahead(row, j, ascending) ==
    {i \in 1..Len(row) : ~IsNaN(row[i]) /\
        (IF ascending THEN Less(row[i], row[j]) ELSE Less(row[j], row[i]))}
Tied(row, j) == {i \in 1..Len(row) : ~IsNaN(row[i]) /\ row[i] = row[j]}

\* competition rank: the smallest rank of the tie group
CompetitionRank(row, j, ascending) == Cardinality(Ahead(row, j, ascending)) + 1
\* twice the average of the ranks of the tie group, which are
\* ahead + 1 .. ahead + tied
TwiceAverageRank(row, j, ascending) ==
    2 * Cardinality(Ahead(row, j, ascending)) + Cardinality(Tied(row, j)) + 1

\* a Position is built from every table (all-missing rows included); a
\* cell on the long (short) side is not missing and its descending
\* (ascending) rank may pass, and a cell that is not missing and whose rank
\* must pass is on that side.  may and must are sets of <<k, j, ascending>>.
RelativeSelection(m, goodLs, may, must) ==
    (pos_pc # "new" /\ mode = m /\ goodLs /\ weight = "equal") =>
      /\ pos_pc = "ok"
      /\ \A c \in Cells(factor) :
           LET long  == uw_posi_long.vals[c[1]][c[2]]
               short == uw_posi_short.vals[c[1]][c[2]]
               there == ~IsNaN(factor.vals[c[1]][c[2]])
           IN  /\ long => (there /\ <<c[1], c[2], FALSE>> \in may)
               /\ (there /\ <<c[1], c[2], FALSE>> \in must) => long
               /\ short => (there /\ <<c[1], c[2], TRUE>> \in may)
               /\ (there /\ <<c[1], c[2], TRUE>> \in must) => short

\* the non-missing cells of the factor with a ranking direction
Ranked ==
    {<<c[1], c[2], asc>> : c \in {c \in Cells(factor) :
        ~IsNaN(factor.vals[c[1]][c[2]])}, asc \in BOOLEAN}

PositiveInt == ls.kind = "int" /\ Less(R(0), ls.num)

\* C8 as stated: in rank mode with a positive integer k, a non-missing cell
\* is long iff its descending competition rank (smallest rank of its tie
\* group) is <= k and short iff its ascending one is; missing cells are
\* never selected and an all-missing row selects nothing without failing.
C8_CompetitionRank ==
    LET passes == {x \in Ranked :
            AtMost(R(CompetitionRank(factor.vals[x[1]], x[2], x[3])), ls.num)}
    IN  RelativeSelection("rank", PositiveInt, passes, passes)

\* C8 amended: the same with tied cells receiving the average of the ranks
\* of their tie group.
C8_AverageRank ==
    LET passes == {x \in Ranked :
            AtMost(R(TwiceAverageRank(factor.vals[x[1]], x[2], x[3])),
                   FMul(R(2), ls.num))}
    IN  RelativeSelection("rank", PositiveInt, passes, passes)

\* C8 witness: k = 1 on the row 3, 3, 1 next to an all-missing row: the two
\* tied leaders have rank 1.5 and are not long, the last cell is short
C8_Witness ==
    /\ pos_pc = "ok" /\ mode = "rank" /\ ls = IntLs(1)
    /\ factor.vals = << <<R(3), R(3), R(1)>>, <<NaN, NaN, NaN>> >>
    /\ uw_posi_long.vals = << <<FALSE, FALSE, FALSE>>, <<FALSE, FALSE, FALSE>> >>
    /\ uw_posi_short.vals = << <<FALSE, FALSE, TRUE>>, <<FALSE, FALSE, FALSE>> >>

FractionLs ==
    ls.kind = "float" /\ Less(R(0), ls.num) /\ Less(ls.num, R(1))

NonMissing(row) == Cardinality({i \in 1..Len(row) : ~IsNaN(row[i])})

\* C9 as stated: in quantile mode with q in (0,1), a non-missing cell of a
\* row with n non-missing cells is long iff (descending rank)/n <= q and
\* short iff (ascending rank)/n <= q; missing cells are never selected and
\* an all-missing row selects nothing without failing.
C9_RankFraction ==
    LET passes == {x \in Ranked :
            AtMost(Frac(TwiceAverageRank(factor.vals[x[1]], x[2], x[3]),
                        2 * NonMissing(factor.vals[x[1]])), ls.num)}
    IN  RelativeSelection("quantile", FractionLs, passes, passes)

\* the least and the greatest of twice the average ranks of a row
TwiceRanks(row, ascending) ==
    {TwiceAverageRank(row, i, ascending) : i \in {i \in 1..Len(row) : ~IsNaN(row[i])}}
Least(S) == CHOOSE x \in S : \A y \in S : x <= y
Greatest(S) == CHOOSE x \in S : \A y \in S : y <= x

\* the rank of cell j rescaled to the row: (r - rmin)/(rmax - rmin), r
\* its average rank, rmin and rmax the least and greatest ranks of the row
Rescaled(row, j, ascending) ==
    LET lo == Least(TwiceRanks(row, ascending))
        hi == Greatest(TwiceRanks(row, ascending))
    IN  Frac(TwiceAverageRank(row, j, ascending) - lo, hi - lo)
AllTied(row, ascending) == Cardinality(TwiceRanks(row, ascending)) <= 1

\* C9 amended: in quantile mode with q in (0,1), in a row whose non-missing
\* cells are all tied (one non-missing cell included) nothing is selected;
\* in any other row a non-missing cell is long if (r - rmin)/(rmax - rmin)
\* < q and not long if it is > q, r its descending average rank and rmin,
\* rmax the least and greatest descending ranks of the row, and likewise
\* short by the ascending ranks (at equality the rounding of the quotient
\* decides); missing cells are never selected and an all-missing row
\* selects nothing without failing.
C9_RescaledRank ==
    LET spread == {x \in Ranked : ~AllTied(factor.vals[x[1]], x[3])}
    IN  RelativeSelection("quantile", FractionLs,
            {x \in spread :
                AtMost(Rescaled(factor.vals[x[1]], x[2], x[3]), ls.num)},
            {x \in spread :
                Less(Rescaled(factor.vals[x[1]], x[2], x[3]), ls.num)})

\* C9 witness: q = 1/2 on the row 1, 2, 3: the middle cell, of rank
\* fraction 2/3, is long and short; the all-tied second row selects nothing
C9_Witness ==
    /\ pos_pc = "ok" /\ mode = "quantile" /\ ls = FloatLs(Frac(1, 2))
    /\ factor.vals = << <<R(1), R(2), R(3)>>, <<R(2), R(2), R(2)>> >>
    /\ uw_posi_long.vals = << <<FALSE, TRUE, TRUE>>, <<FALSE, FALSE, FALSE>> >>
    /\ uw_posi_short.vals = << <<TRUE, TRUE, FALSE>>, <<FALSE, FALSE, FALSE>> >>

---------------------------------------------------------------------------
(* Claims about the parser's errors *)

\* the tokens of the alphabet that int() accepts, and those float() accepts
IntTokens ==
    {<<"0">>, <<"1">>, <<"2">>, <<"-", "1">>, <<"1", "_", "0">>}
FloatTokens == IntTokens \cup {<<"1", ".", "5">>, <<".", "5">>}
Accepts(dt) == IF dt = "int" THEN IntTokens ELSE FloatTokens

Prefixed(clause) ==
    Len(clause) >= 2 /\ SubSeq(clause, 1, 2) \in {<<"l", ":">>, <<"s", ":">>}
TokensOf(clause) == Split(SubSeq(clause, 3, Len(clause)), "~")

\* the selector strings the claim lists: empty, more than two clauses, a
\* clause without prefix, a clause with an empty body, two clauses of one
\* direction, a clause with more than one "~", a token the type rejects
Malformed(str, dt) ==
    LET cl == Split(str, "_")
        C  == 1..Len(cl)
    IN  \/ str = <<>>
        \/ Len(cl) > 2
        \/ \E i \in C : ~Prefixed(cl[i])
        \/ \E i \in C : Prefixed(cl[i]) /\ Len(cl[i]) = 2
        \/ \E i, j \in C : i # j /\ Prefixed(cl[i]) /\ Prefixed(cl[j])
                             /\ cl[i][1] = cl[j][1]
        \/ \E i \in C : Prefixed(cl[i]) /\ Len(TokensOf(cl[i])) > 2
        \/ \E i \in C : Prefixed(cl[i]) /\
              \E n \in 1..Len(TokensOf(cl[i])) :
                  TokensOf(cl[i])[n] \notin Accepts(dt)

\* C11: parsing a selector string that is empty, has more than two
\* clauses, two clauses of one direction, a clause without "l:" or "s:", a
\* clause with an empty body, a clause with more than one "~" or a token
\* the numeric type cannot parse fails with an error and returns no ranges.
C11_Rejects ==
    (parse_pc # "new" /\ ls.kind = "str" /\ Malformed(ls.str, data_type)) =>
        /\ parse_pc \notin {"ok", "idle"}
        /\ ranges = [l |-> NoRange, s |-> NoRange]

\* C11 witness: "l:1.5" was parsed with int and rejected as a literal
C11_Witness ==
    /\ ls.str = Clause("l", <<"1", ".", "5">>)
    /\ data_type = "int"
    /\ parse_pc = "ValueError: invalid literal"
    /\ ranges = [l |-> NoRange, s |-> NoRange]

---------------------------------------------------------------------------
(* Claims about the validation of Position's arguments *)

NotBuilt ==
    uw_posi_long = NoTable /\ uw_posi_short = NoTable /\ posi = NoTable

LsErrors ==
    {"ValueError: The ls must be a string, float, or int.",
     "ValueError: The ls must be a positive number.",
     "ValueError: The ls must be a number between 0 and 1.",
     "ValueError: ls must be data_type or str"}

\* C12: construction fails, with no Position, when mode is "rank" and the
\* selector is a single number <= 0 and when mode is "quantile" and it is a
\* single number <= 0 or >= 1; a positive integer count in rank mode and a
\* number strictly between 0 and 1 in quantile mode are accepted (with the
\* default weight the Position is built).
C12_SelectorValidation ==
    pos_pc # "new" =>
        /\ (mode = "rank" /\ IsNumber(ls) /\ AtMost(ls.num, R(0))) =>
               /\ pos_pc = "ValueError: The ls must be a positive number."
               /\ NotBuilt
        /\ (mode = "quantile" /\ IsNumber(ls)
              /\ (AtMost(ls.num, R(0)) \/ AtMost(R(1), ls.num))) =>
               /\ pos_pc = "ValueError: The ls must be a number between 0 and 1."
               /\ NotBuilt
        /\ ((mode = "rank" /\ PositiveInt) \/ (mode = "quantile" /\ FractionLs)) =>
               /\ pos_pc \notin LsErrors
               /\ weight = "equal" => pos_pc = "ok" /\ posi # NoTable

\* C12 witness: the count 0 was rejected in rank mode
C12_Witness ==
    /\ mode = "rank" /\ ls = IntLs(0)
    /\ pos_pc = "ValueError: The ls must be a positive number."
    /\ NotBuilt

\* C12, the other side: a fraction was accepted in quantile mode
C12_Accepted ==
    /\ mode = "quantile" /\ ls = FloatLs(Frac(1, 4)) /\ weight = "equal"
    /\ pos_pc = "ok" /\ posi # NoTable

\* the mode and the selector pass their validations and the selection
\* masks of the factor can be computed
Selectable ==
    /\ validate_mode(mode) = "" /\ validate_ls(ls, mode) = ""
    /\ gen_posi(factor, ls, mode).err = ""

\* C13: a weight that is neither "equal" nor "value" nor a weight table is
\* rejected by the weight validation with the invalid-weight error, before
\* any selection mask or position is computed.
C13_WeightRejected ==
    (pos_pc # "new" /\ weight \notin {"equal", "value", "table"}
       /\ validate_mode(mode) = "" /\ validate_ls(ls, mode) = "") =>
        /\ pos_pc = "ValueError: The weight must be 'equal', 'value', or a DataFrame."
        /\ NotBuilt

\* the cells of a mask, each divided by the number of cells of its row
Share(mask, k, j) ==
    IF mask.vals[k][j]
    THEN Frac(1, Cardinality({i \in Cols(mask) : mask.vals[k][i]}))
    ELSE R(0)

\* C14: with weight "value" the construction succeeds and the position is
\* one table of the factor's shape: on every row the long-selected cells
\* and the short-selected cells are each normalized by their own row sum
\* (long weights sum to 1, short weights to -1) and the sides are netted.
C14_ValueWeighting ==
    (pos_pc # "new" /\ weight = "value" /\ Selectable) =>
        /\ pos_pc = "ok"
        /\ \E g \in {gen_posi(factor, ls, mode)} :
              posi = LikeFactor(factor, [k \in Rows(factor), j \in Cols(factor) |->
                         FSub(Share(g.long, k, j), Share(g.short, k, j))])

\* C15: with a weight table of the factor's shape the construction succeeds
\* and each cell of the position is (weight if long-selected, else 0) -
\* (weight if short-selected, else 0), with no renormalization.
C15_TableWeighting ==
    (pos_pc # "new" /\ weight = "table" /\ Selectable) =>
        /\ pos_pc = "ok"
        /\ \E g \in {gen_posi(factor, ls, mode)} :
           \E w \in {WeightTable(factor)} :
              posi = LikeFactor(factor, [k \in Rows(factor), j \in Cols(factor) |->
                         FSub(IF g.long.vals[k][j] THEN w.vals[k][j] ELSE R(0),
                              IF g.short.vals[k][j] THEN w.vals[k][j] ELSE R(0))])

---------------------------------------------------------------------------
(* Claims about the methods of a constructed Position *)

\* C19: for every built Position p, -p is a Position whose position table
\* is the cell-by-cell negation of p's table, with the same dates and
\* instruments, for every mode, selector and factor table.
C19_Negation ==
    neg_pc # "idle" =>
        /\ neg_pc = "ok"
        /\ neg_posi.index = posi.index /\ neg_posi.columns = posi.columns
        /\ \A c \in Cells(posi) :
              neg_posi.vals[c[1]][c[2]] = FSub(R(0), posi.vals[c[1]][c[2]])

\* the number of dates d of a mask with lo <= d <= hi on which column j is
\* selected
CountIn(mask, j, lo, hi) ==
    Cardinality({k \in 1..NRows(mask) :
        lo <= mask.index[k] /\ mask.index[k] <= hi /\ mask.vals[k][j]})

FirstDate(df) == df.index[1]
LastDate(df) == df.index[NRows(df)]

\* C20: holding_freq(start, end) returns for every instrument the number
\* of dates d with start <= d <= end on which it is long-selected and the
\* number on which it is short-selected; a start that is not given is the
\* first date and an end that is not given the last date.
C20_HoldingFreq ==
    freq_pc # "idle" =>
        /\ freq_pc = "ok"
        /\ \E lo \in {IF hf_start = None THEN FirstDate(uw_posi_long) ELSE hf_start} :
           \E hi \in {IF hf_end = None THEN LastDate(uw_posi_long) ELSE hf_end} :
              /\ freq.index = uw_posi_long.columns
              /\ freq.long = [j \in 1..NCols(uw_posi_long) |->
                                 CountIn(uw_posi_long, j, lo, hi)]
              /\ freq.short = [j \in 1..NCols(uw_posi_short) |->
                                 CountIn(uw_posi_short, j, lo, hi)]

---------------------------------------------------------------------------
(* Claims about selector strings with one clause *)

\* the data type the nodes of a selector string are read as
NodeType == IF mode = "rank" THEN "int" ELSE "float"

\* the selector is a well-formed string with the clause of one direction
\* only
OneDirection ==
    /\ mode \in {"abs", "rank", "quantile"} /\ ls.kind = "str"
    /\ RangeSpec(ls, NodeType).err = ""
    /\ (RangeSpec(ls, NodeType).l = NoRange) # (RangeSpec(ls, NodeType).s = NoRange)

\* what a direction's range is compared with: the factor in abs mode, the
\* descending (long) or ascending (short) rank or quantile otherwise
Measured(k, j, side) ==
    IF mode = "abs" THEN factor.vals[k][j]
    ELSE RankTable(factor, mode, side = "s")[k][j]

\* the mask a direction with the range rng has: all-false without a
\* range, the cells inside the range with one
MaskOf(mask, rng, side) ==
    \A c \in Cells(factor) :
        mask.vals[c[1]][c[2]] <=>
            (rng # NoRange /\ InRange(Measured(c[1], c[2], side), rng))

\* C27: with a selector string of one clause, in abs, rank and quantile
\* mode, the Position is constructed; the absent direction's mask is
\* all-false and the present direction's mask is the cells inside its range.
C27_OneSidedRange ==
    (pos_pc # "new" /\ OneDirection /\ weight = "equal") =>
        /\ pos_pc = "ok"
        /\ MaskOf(uw_posi_long, RangeSpec(ls, NodeType).l, "l")
        /\ MaskOf(uw_posi_short, RangeSpec(ls, NodeType).s, "s")

---------------------------------------------------------------------------
(* Claims about the two strategies *)

\* strictly positive, non-missing prices
PositivePrices(pr) ==
    \A k \in 1..NRows(pr) : \A j \in 1..NCols(pr) :
        ~IsNaN(pr.vals[k][j]) /\ Less(R(0), pr.vals[k][j])

\* C28: with fee 0, strictly positive non-missing prices and a position
\* table without missing values that passes the checks, both strategies
\* give the same net worth at every date, the running product of
\* 1 + sum_i r[s,i] * position[s-1,i].
C28_ZeroFeeEquivalence ==
    (nw_pc = "ok" /\ fee = R(0) /\ PositivePrices(price) /\ ~HasNaN(position)) =>
        \E o \in {Construct(price, position, fee, ignore_posi_exceed,
                            OtherMethod(method), pad)} :
            /\ o.pc = "ok"
            /\ o.networth = networth
            /\ networth.vals = RefWorth(price, position, fee)

---------------------------------------------------------------------------
(* Claims about a Series factor *)

\* what constructing from the one-column table of the same values gives
FromTable ==
    LET g  == gen_posi(factor, ls, mode)
        wp == IF g.err = "" THEN gen_weighted_posi(g.long, g.short, weight)
              ELSE [err |-> g.err, posi |-> NoTable]
    IN  [err |-> wp.err, long |-> g.long, short |-> g.short, posi |-> wp.posi]

\* C29: a Series factor is handled as its one-column table: in abs, rank
\* and quantile mode, with a selector the table is constructed from, the
\* Position is constructed with the same masks and the same position
\* values.
C29_SeriesFactor ==
    (/\ pos_pc # "new" /\ is_series
     /\ Validation(mode, ls, weight) = "" /\ FromTable.err = "") =>
        /\ pos_pc = "ok"
        /\ uw_posi_long = FromTable.long
        /\ uw_posi_short = FromTable.short
        /\ posi = FromTable.posi

---------------------------------------------------------------------------
(* Claims about the performance summary *)

\* C30: after a successful construction every call of total_perf or
\* annual_perf, in any order and any number of times, returns the summary
\* instead of failing, and one StratPerf is created and reused.
C30_PerfAccess ==
    perf_calls > 0 =>
        perf_pc = "ok" /\ perf = "StratPerf" /\ perf_made = 1

---------------------------------------------------------------------------
(* Claims about the caller's tables *)

\* C23: constructing a NetWorth, successfully or not, leaves the price
\* table and the position table the caller supplied unchanged: values,
\* date index and column labels.  The variables price and position are
\* the caller's objects, which the constructor keeps without copying.
C23_InputsUnchanged ==
    [][nw_pc = "new" /\ nw_pc' # "new" =>
          price' = price /\ position' = position]_vars

---------------------------------------------------------------------------
(* Claims about what the performance aggregator is handed *)

\* the series has no missing value
SeriesComplete(sr) == \A k \in 1..Len(sr.vals) : ~IsNaN(sr.vals[k])

\* C24: the net worth of a successfully constructed NetWorth has no
\* missing value and its date index is the date index of the position
\* table it was built from.
C24_DownstreamReady ==
    nw_pc = "ok" =>
        SeriesComplete(networth) /\ networth.index = position.index

---------------------------------------------------------------------------
(* Claims about missing prices *)

\* the net worth the specification describes when a price return is
\* unavailable: the instrument contributes no return on that date and the
\* transaction cost of every instrument is charged in full
MissingReturnWorth(pr, pos, f) ==
    LET rows == WindowRows(pos)
        q(n, c) == IF n < 1 THEN R(0) ELSE FFillna0(CellAt(pos, rows[n], c))
        ret(n, c) == FSub(FDiv(PriceOf(pr, pos.index[rows[n]], c),
                               PriceOf(pr, pos.index[rows[n - 1]], c)), R(1))
        cols == pos.columns
        net(n) == FSub(SumSeq([j \in 1..Len(cols) |->
                           FFillna0(FMul(ret(n, cols[j]), q(n - 1, cols[j])))]),
                       FMul(f, SumSeq([j \in 1..Len(cols) |->
                           FAbs(FSub(q(n - 1, cols[j]), q(n - 2, cols[j])))])))
        w[n \in 1..Len(rows)] ==
            IF n = 1 THEN R(1) ELSE FMul(w[n - 1], FAdd(R(1), net(n)))
    IN  [n \in 1..Len(rows) |-> w[n]]

\* both tables have the same dates and the same instruments
SameShape(pr, pos) == pr.index = pos.index /\ pr.columns = pos.columns

\* C25: in the vectorized strategy an instrument whose price return is
\* unavailable contributes zero return, the other instruments' returns are
\* applied and the whole transaction cost is subtracted.
C25_MissingReturn ==
    (/\ nw_pc = "ok" /\ method = "vector"
     /\ SameShape(price, position) /\ HasNaN(price)
     /\ first_valid_index(position) # None) =>
        networth.vals = MissingReturnWorth(price, position, fee)

---------------------------------------------------------------------------
(* Claims about the fee *)

\* the fee rates a simulation is compared with: those of its own inputs
FeeRates == IF fee \in HeavyFees THEN HeavyFees ELSE Fees

\* a net-worth series has stayed positive up to its k-th date
PositiveUpTo(w, k) == \A n \in 1..k : ~IsNaN(w[n]) /\ Less(R(0), w[n])

\* the net worth of the same tables simulated with the fee rate f2 is at
\* most the constructed one: at every date, or at the dates up to which it
\* has stayed positive
FeeMonotone(f2, whilePositive) ==
    \E c2 \in {Construct(price, position, f2, ignore_posi_exceed, method, pad)} :
        /\ c2.pc = "ok"
        /\ c2.networth.index = networth.index
        /\ \A k \in 1..Len(networth.vals) :
              (whilePositive => PositiveUpTo(c2.networth.vals, k)) =>
                  FLe(c2.networth.vals[k], networth.vals[k])

\* C22 as stated: for tables passing the checks and fee rates f1 <= f2, the
\* net worth simulated with f2 is <= the one simulated with f1 at every
\* date of the window, for every admissible input and either strategy.
C22_FeeMonotone ==
    nw_pc = "ok" =>
        \A f2 \in FeeRates : FLe(fee, f2) => FeeMonotone(f2, FALSE)

\* C22 amended: in the vectorized strategy, the net worth simulated with f2
\* is <= the one simulated with f1 at every date up to which the net worth
\* simulated with f2 has stayed positive.
C22_FeeMonotoneVector ==
    (nw_pc = "ok" /\ method = "vector") =>
        \A f2 \in FeeRates : FLe(fee, f2) => FeeMonotone(f2, TRUE)

\* C22 witness: a short position was opened; with the higher fee rate the
\* net worth stays positive and ends strictly lower
C22_Witness ==
    /\ nw_pc = "ok" /\ method = "vector" /\ fee = R(0)
    /\ \E k \in 1..NRows(position) : position.vals[k][1] = R(-1)
    /\ \E c2 \in {Construct(price, position, Frac(1, 10), ignore_posi_exceed,
                            method, pad)} :
          /\ c2.pc = "ok" /\ Len(networth.vals) = 3
          /\ \A k \in 1..3 : Less(R(0), c2.networth.vals[k])
          /\ Less(c2.networth.vals[3], networth.vals[3])

---------------------------------------------------------------------------
(* The package: any of the three components, from its inputs *)

Init == InitSingle \/ InitPos \/ InitSeries \/ InitParse

Next ==
    \/ NextNW \/ NextPos \/ NextParse \/ Position__neg__ \/ holding_freq__call
    \/ single_networth__call \/ total_perf__call \/ annual_perf__call

Spec == Init /\ [][Next]_vars

=============================================================================
